---- MODULE Spec2Model ----
(***************************************************************************)
(* The ROFL build/deploy action: its entry point run() and its Safe        *)
(* multisig proposal flow (runSafeProposal / proposeToSafe /               *)
(* generateTransactions).                                                  *)
(*                                                                         *)
(* Spec explores one invocation of runSafeProposal, RunSpec one invocation *)
(* of run(), which awaits runSafeProposal and installOasisCLI as single    *)
(* steps, and CliSpec one invocation of installOasisCLI.                   *)
(*                                                                         *)
(* One invocation is modelled from the call of runSafeProposal to its      *)
(* return or throw.  Every awaited SDK or service call is one action; its  *)
(* outcome (value or thrown error) is chosen by the environment.  Every    *)
(* external call is appended to `trace` in program order.                  *)
(*                                                                         *)
(* Strings the code inspects are modelled by their structure:              *)
(*   - a CBOR method name is the sequence of its tokens, split around '.', *)
(*     e.g. "roflmarket.InstanceExecuteCmds" is                            *)
(*     <<"roflmarket", ".", "InstanceExecuteCmds">> and "" is <<>>;        *)
(*   - the safe_chain_id input is the sequence of its characters, a digit  *)
(*     being its value 0..9 and any other character being NonDigit;        *)
(*   - an error message is the sequence of its template parts (the words   *)
(*     at the head of the Safe-mode messages of run() are parts of their   *)
(*     own);                                                               *)
(*   - a command line is the sequence of its arguments, a path the         *)
(*     sequence of its segments;                                           *)
(*   - a CLI version or release tag is the sequence of its pieces, a       *)
(*     leading letter v being a piece of its own: "v0.19.0" is             *)
(*     <<"v", "0.19.0">> and "" is <<>>.                                   *)
(***************************************************************************)
EXTENDS Integers, Sequences, FiniteSets, TLC

\* ------------------------------------------------------------------ bounds

\* getNextNonce answers a nonce in 0..MaxNonce
MaxNonce == 1
\* the services fail with one of NumServiceErrors distinct errors
NumServiceErrors == 2

\* ------------------------------------------------------- program constants

nonceMaxRetries == 3
maxRetries == 2
\* the literal 1000 of `1000 * attempt` and `1000 * retryCount`
BackoffMs == 1000
\* chain ids of the two profiles
MainnetChainId == 23294
TestnetChainId == 23295

\* ------------------------------------------------------------ NETWORKS

NETWORKS ==
  [ mainnet |->
      [ runtimeId |-> "000000000000000000000000000000000000000000000000f80306c9858e7279",
        chainId   |-> MainnetChainId,
        grpcApi   |-> "https://grpc.oasis.io",
        web3Api   |-> "https://sapphire.oasis.io",
        safeApi   |-> "https://transaction.safe.oasis.io/api" ],
    testnet |->
      [ runtimeId |-> "000000000000000000000000000000000000000000000000a6d1e3ebf60dff6c",
        chainId   |-> TestnetChainId,
        grpcApi   |-> "https://testnet.grpc.oasis.io",
        web3Api   |-> "https://testnet.sapphire.oasis.io",
        safeApi   |-> "https://transaction-testnet.safe.oasis.io/api" ] ]

\* NETWORKS is a plain object literal, so NETWORKS[name] also finds the
\* properties every object inherits from Object.prototype; these values are
\* functions/objects, hence truthy, and carry none of the profile fields.
ObjectPrototypeKeys == {"constructor", "toString", "hasOwnProperty"}

\* NETWORKS[networkName]: "own" - a profile; "inherited" - a truthy value
\* that is no profile; "undefined" - the lookup yields undefined.
NetworkLookup(networkName) ==
  IF networkName \in DOMAIN NETWORKS THEN "own"
  ELSE IF networkName \in ObjectPrototypeKeys THEN "inherited"
  ELSE "undefined"

\* `!networkInfo`
NetworkInfoMissing(networkName) == NetworkLookup(networkName) = "undefined"

\* ------------------------------------------------------------- inputs

NetworkNames == {"mainnet", "testnet", "devnet", "localnet", "Mainnet", "constructor"}

NonDigit == 10
\* "", "42", "x"
ChainIdInputs == { <<>>, <<4, 2>>, <<NonDigit>> }

SafeInputs ==
  [ safePropose     : BOOLEAN,
    safeAddress     : {"", "0x123"},
    safeProposerKey : {"", "0xkey"},
    safeRpcUrl      : {"", "https://rpc.example.com"},
    safeServiceUrl  : {"", "https://safe.example.com"},
    safeChainId     : ChainIdInputs,
    grpcUrl         : {""},
    deployment      : {"testnet"},
    dryRun          : BOOLEAN ]

\* an optional path: "" stands for both undefined and the empty string
\* (the code only tests the path for truthiness)
Paths == {"update.cbor", "deploy.cbor"}
TransactionFiles ==
  [ updateFile : {"", "update.cbor"},
    deployFile : {"", "deploy.cbor"} ]

\* ------------------------------------------------------ artifact files

Methods ==
  { <<>>,
    <<"rofl", ".", "Update">>,
    <<"roflmarket", ".", "InstanceExecuteCmds">>,
    <<"unknown", ".", "Foo">> }

Bodies == {"body"}

Absent == [kind |-> "absent", hasCall |-> FALSE, hasMethod |-> FALSE,
           method |-> <<>>, body |-> ""]
\* the file exists and fromCBOR throws on it
Garbage == [kind |-> "garbage", hasCall |-> FALSE, hasMethod |-> FALSE,
            method |-> <<>>, body |-> ""]
\* the file decodes to a map without a `call` field
NoCall == [kind |-> "cbor", hasCall |-> FALSE, hasMethod |-> FALSE,
           method |-> <<>>, body |-> ""]
\* the file decodes to {call: {body}} or {call: {method, body}}
Envelopes ==
  [kind : {"cbor"}, hasCall : {TRUE}, hasMethod : {FALSE}, method : {<<>>}, body : Bodies]
  \cup
  [kind : {"cbor"}, hasCall : {TRUE}, hasMethod : {TRUE}, method : Methods, body : Bodies]

Contents == {Absent, Garbage, NoCall} \cup Envelopes

\* the file system as the flow can observe it: only configured paths are
\* ever looked at, the others are left absent
Disks(files) ==
  { d \in [Paths -> Contents] :
      \A p \in Paths : p \notin {files.updateFile, files.deployFile} => d[p] = Absent }

\* every configured path is taken to exist
ExistsSyncAlways(d, path) == path \in Paths

\* fs.existsSync(path) for a truthy path
ExistsSync(d, path) == path \in Paths /\ d[path].kind # "absent"

\* ------------------------------------------------------------- errors

Err(cls, message) == [cls |-> cls, message |-> message]
NoError == Err("", <<>>)

\* what the wallet service, the RPC provider or an SDK call throws
ServiceErrors == { Err("ServiceError", <<"service failure", ToString(k)>>) : k \in 1..NumServiceErrors }

\* a fixed text in place of the error's own message
ErrorMessageDropped(e) == <<"Action failed">>

\* error instanceof Error ? error.message : String(error)
ErrorMessage(e) == e.message

UnknownNetworkError(networkName) ==
  Err("Error", <<"Unknown network: ", networkName, ". Supported: mainnet, testnet">>)

UnsupportedMethodError(method) ==
  Err("Error", <<"Unsupported deploy CBOR method: ">> \o method
               \o <<". ", "Supported methods: rofl.Update, roflmarket.*">>)

NoTransactionFilesError == Err("Error", <<"No transaction files found to propose">>)

NonceError(e) ==
  Err("Error", <<"Failed to get nonce after ", ToString(nonceMaxRetries), " attempts: ">>
               \o ErrorMessage(e))

SafeAddressRequired == Err("Error", <<"safe_address is required when safe_propose is enabled">>)
ProposerKeyRequired == Err("Error", <<"safe_proposer_key is required when safe_propose is enabled">>)

ModuleNotFound(moduleName) == Err("Error", <<"Cannot find module ", moduleName>>)
\* property access on undefined, fromHex(undefined)
TypeError == Err("TypeError", <<"Cannot read properties of undefined">>)
\* fromCBOR on a file that is no CBOR
DecodeError == Err("Error", <<"CBOR decode error">>)
\* BigInt(s) on a string that is no integer literal
SyntaxError == Err("SyntaxError", <<"Cannot convert to a BigInt">>)

\* ------------------------------------------------------ external calls

\* one entry of the call log: op - the call; arg - its subject; ok - whether
\* it returned (FALSE: it threw); n - a number it carries (the nonce
\* getNextNonce answered, the milliseconds of a wait, the attempt number)
Call(op, arg, ok, n) == [op |-> op, arg |-> arg, ok |-> ok, n |-> n]

SafeModuleNames ==
  << "xhr2", "@safe-global/protocol-kit", "@safe-global/api-kit", "@safe-global/types-kit" >>
OasisModuleNames == << "@oasisprotocol/client", "@oasisprotocol/client-rt" >>
ModuleNames ==
  { SafeModuleNames[i] : i \in 1..Len(SafeModuleNames) }
  \cup { OasisModuleNames[i] : i \in 1..Len(OasisModuleNames) }

\* what node_modules can hold: everything, or everything but one package
NodeModulesChoices == {ModuleNames} \cup { ModuleNames \ {m} : m \in ModuleNames }

\* index of the first module of `names` that is not installed, 0 if none
FirstMissing(names, installed) ==
  IF \A i \in 1..Len(names) : names[i] \in installed THEN 0
  ELSE CHOOSE i \in 1..Len(names) :
         /\ names[i] \notin installed
         /\ \A j \in 1..(i - 1) : names[j] \in installed

\* loadModule called on `names` in order: [err, calls]; require throws on
\* the first missing module and the later ones are never asked for
LoadModules(names, installed) ==
  LET k == FirstMissing(names, installed)
      last == IF k = 0 THEN Len(names) ELSE k
  IN [ err   |-> IF k = 0 THEN NoError ELSE ModuleNotFound(names[k]),
       calls |-> [ i \in 1..last |-> Call("loadModule", names[i], i # k, 0) ] ]

\* ------------------------------------------------- generateTransactions

SubcallAddress == "0x0100000000000000000000000000000000000103"

\* the `value` field of what Wrapper...toSubcall() returns: absent, or a bigint
WrapperValues == { [defined |-> FALSE, n |-> 0], [defined |-> TRUE, n |-> 1] }

\* rofl.callUpdate().setBody(body).toSubcall()
CallUpdateSubcall(body, v) ==
  [to |-> SubcallAddress, data |-> <<"rofl.Update", body>>, value |-> v]

\* roflmarket.callInstanceExecuteCmds().setBody(body).toSubcall()
CallInstanceExecuteCmdsSubcall(body, v) ==
  [to |-> SubcallAddress, data |-> <<"roflmarket.InstanceExecuteCmds", body>>, value |-> v]

\* {to, data, value: sub.value ? sub.value.toString() : '0'}
Descriptor(sub) ==
  [ to    |-> sub.to,
    data  |-> sub.data,
    value |-> IF sub.value.defined /\ sub.value.n # 0 THEN ToString(sub.value.n) ELSE "0" ]

\* method.startsWith(prefix)
StartsWith(method, prefix) ==
  /\ Len(method) >= Len(prefix)
  /\ SubSeq(method, 1, Len(prefix)) = prefix

RoflmarketPrefix == <<"roflmarket", ".">>

\* `deployCbor.call && deployCbor.call.method`: the call exists and its
\* method is truthy (present and not the empty string)
HasDeployMethod(c) == c.hasCall /\ c.hasMethod /\ c.method # <<>>

\* what reading an existing artifact file logs: existsSync (n = 1: true),
\* readFileSync, fromCBOR (ok = FALSE: it throws)
ReadCalls(path, c) ==
  << Call("existsSync", path, TRUE, 1),
     Call("readFileSync", path, TRUE, 0),
     Call("fromCBOR", path, c.kind # "garbage", 0) >>

\* existsSync answering false (n = 0)
MissingCalls(path) == << Call("existsSync", path, TRUE, 0) >>

\* the update block gated on the declared method, as the deploy block is
ProcessUpdateByMethod(files, d, vU) ==
  IF files.updateFile = "" THEN [err |-> NoError, txs |-> <<>>, calls |-> <<>>]
  ELSE IF ~ExistsSync(d, files.updateFile)
    THEN [err |-> NoError, txs |-> <<>>, calls |-> MissingCalls(files.updateFile)]
  ELSE LET c == d[files.updateFile]
           calls == ReadCalls(files.updateFile, c)
       IN
    IF c.kind = "garbage" THEN [err |-> DecodeError, txs |-> <<>>, calls |-> calls]
    ELSE IF ~c.hasCall THEN [err |-> TypeError, txs |-> <<>>, calls |-> calls]
    ELSE IF c.hasMethod /\ c.method = <<"rofl", ".", "Update">>
      THEN [err |-> NoError, txs |-> << Descriptor(CallUpdateSubcall(c.body, vU)) >>,
            calls |-> calls]
    ELSE [err |-> UnsupportedMethodError(c.method), txs |-> <<>>, calls |-> calls]

\* the update block: [err, txs, calls]
ProcessUpdate(files, d, vU) ==
  IF files.updateFile = "" THEN [err |-> NoError, txs |-> <<>>, calls |-> <<>>]
  ELSE IF ~ExistsSync(d, files.updateFile)
    THEN [err |-> NoError, txs |-> <<>>, calls |-> MissingCalls(files.updateFile)]
  ELSE LET c == d[files.updateFile]
           calls == ReadCalls(files.updateFile, c)
       IN
    IF c.kind = "garbage" THEN [err |-> DecodeError, txs |-> <<>>, calls |-> calls]
    \* updateCbor.call.body with updateCbor.call undefined
    ELSE IF ~c.hasCall THEN [err |-> TypeError, txs |-> <<>>, calls |-> calls]
    ELSE [err |-> NoError, txs |-> << Descriptor(CallUpdateSubcall(c.body, vU)) >>,
          calls |-> calls]

\* the deploy block without its else branch: a method outside roflmarket.*
\* is skipped like a missing one
ProcessDeployLenient(files, d, vD) ==
  IF files.deployFile = "" THEN [err |-> NoError, txs |-> <<>>, calls |-> <<>>]
  ELSE IF ~ExistsSync(d, files.deployFile)
    THEN [err |-> NoError, txs |-> <<>>, calls |-> MissingCalls(files.deployFile)]
  ELSE LET c == d[files.deployFile]
           calls == ReadCalls(files.deployFile, c)
       IN
    IF c.kind = "garbage" THEN [err |-> DecodeError, txs |-> <<>>, calls |-> calls]
    ELSE IF HasDeployMethod(c) /\ StartsWith(c.method, RoflmarketPrefix)
      THEN [err |-> NoError, txs |-> << Descriptor(CallInstanceExecuteCmdsSubcall(c.body, vD)) >>,
            calls |-> calls]
    ELSE [err |-> NoError, txs |-> <<>>, calls |-> calls]

\* the deploy block: [err, txs, calls]
ProcessDeploy(files, d, vD) ==
  IF files.deployFile = "" THEN [err |-> NoError, txs |-> <<>>, calls |-> <<>>]
  ELSE IF ~ExistsSync(d, files.deployFile)
    THEN [err |-> NoError, txs |-> <<>>, calls |-> MissingCalls(files.deployFile)]
  ELSE LET c == d[files.deployFile]
           calls == ReadCalls(files.deployFile, c)
       IN
    IF c.kind = "garbage" THEN [err |-> DecodeError, txs |-> <<>>, calls |-> calls]
    \* no else branch: without a truthy method nothing is pushed or thrown
    ELSE IF ~HasDeployMethod(c) THEN [err |-> NoError, txs |-> <<>>, calls |-> calls]
    ELSE IF StartsWith(c.method, RoflmarketPrefix)
      THEN [err |-> NoError, txs |-> << Descriptor(CallInstanceExecuteCmdsSubcall(c.body, vD)) >>,
            calls |-> calls]
    ELSE [err |-> UnsupportedMethodError(c.method), txs |-> <<>>, calls |-> calls]

\* the two blocks with their pushes in the other order
ProcessFilesDeployFirst(files, d, vU, vD) ==
  LET u == ProcessUpdate(files, d, vU) IN
  IF u.err # NoError THEN [err |-> u.err, txs |-> <<>>, calls |-> u.calls]
  ELSE LET p == ProcessDeploy(files, d, vD) IN
    IF p.err # NoError THEN [err |-> p.err, txs |-> <<>>, calls |-> u.calls \o p.calls]
    ELSE [err |-> NoError, txs |-> p.txs \o u.txs, calls |-> u.calls \o p.calls]

\* the update block runs first and its descriptor is pushed first
ProcessFiles(files, d, vU, vD) ==
  LET u == ProcessUpdate(files, d, vU) IN
  IF u.err # NoError THEN [err |-> u.err, txs |-> <<>>, calls |-> u.calls]
  ELSE LET p == ProcessDeploy(files, d, vD) IN
    IF p.err # NoError THEN [err |-> p.err, txs |-> <<>>, calls |-> u.calls \o p.calls]
    ELSE [err |-> NoError, txs |-> u.txs \o p.txs, calls |-> u.calls \o p.calls]

\* generateTransactions(files, networkName, nodeModulesPath): [err, txs, calls]
GenerateTransactions(files, networkName, installed, d, vU, vD) ==
  IF NetworkInfoMissing(networkName)
    THEN [err |-> UnknownNetworkError(networkName), txs |-> <<>>, calls |-> <<>>]
  ELSE LET l == LoadModules(OasisModuleNames, installed) IN
    IF l.err # NoError THEN [err |-> l.err, txs |-> <<>>, calls |-> l.calls]
    \* oasis.misc.fromHex(networkInfo.runtimeId) with runtimeId undefined
    ELSE IF NetworkLookup(networkName) # "own"
      THEN [err |-> TypeError, txs |-> <<>>, calls |-> l.calls]
    ELSE LET r == ProcessFiles(files, d, vU, vD) IN
      [err |-> r.err, txs |-> r.txs, calls |-> l.calls \o r.calls]

\* ------------------------------------------------ proposeToSafe helpers

\* BigInt(s) of a non-empty string: [ok, val]; a string with a character
\* that is no decimal digit makes BigInt throw a SyntaxError
RECURSIVE DecimalValue(_)
DecimalValue(s) ==
  IF s = <<>> THEN 0 ELSE 10 * DecimalValue(SubSeq(s, 1, Len(s) - 1)) + s[Len(s)]

BigInt(s) ==
  IF \A i \in 1..Len(s) : s[i] < NonDigit
    THEN [ok |-> TRUE, val |-> DecimalValue(s)]
    ELSE [ok |-> FALSE, val |-> 0]

\* inputs.safeRpcUrl || networkInfo.web3Api
RpcUrl(inputs, networkInfo) ==
  IF inputs.safeRpcUrl # "" THEN inputs.safeRpcUrl ELSE networkInfo.web3Api

\* the service URL override ignored
ServiceUrlDefaultOnly(inputs, networkInfo) == networkInfo.safeApi

\* inputs.safeServiceUrl || networkInfo.safeApi
ServiceUrl(inputs, networkInfo) ==
  IF inputs.safeServiceUrl # "" THEN inputs.safeServiceUrl ELSE networkInfo.safeApi

\* inputs.safeChainId ? BigInt(inputs.safeChainId) : networkInfo.chainId
ChainId(inputs, networkInfo) ==
  IF inputs.safeChainId # <<>> THEN BigInt(inputs.safeChainId)
  ELSE [ok |-> TRUE, val |-> networkInfo.chainId]

NoConfig == [rpcUrl |-> "", serviceUrl |-> "", chainId |-> 0]

\* a constant delay instead of a linear one
NonceDelayConstant(attempt) == BackoffMs

\* the delay before the next getNextNonce attempt
NonceDelay(attempt) == BackoffMs * attempt

\* the proposal loop retries without waiting
ProposeDelayNone(retryCount) == 0

\* the delay before the next proposal attempt, retryCount already incremented
ProposeDelay(retryCount) == BackoffMs * retryCount

\* the calls are marked as delegate calls
MetaTransactionsDelegateCall(transactions) ==
  [ i \in 1..Len(transactions) |->
      [ to        |-> transactions[i].to,
        data      |-> transactions[i].data,
        value     |-> IF transactions[i].value # "" THEN transactions[i].value ELSE "0",
        operation |-> "DelegateCall" ] ]

\* transactions.map(tx => ({...tx, value: tx.value || '0', operation: OperationType.Call}))
MetaTransactions(transactions) ==
  [ i \in 1..Len(transactions) |->
      [ to        |-> transactions[i].to,
        data      |-> transactions[i].data,
        value     |-> IF transactions[i].value # "" THEN transactions[i].value ELSE "0",
        operation |-> "Call" ] ]

\* the transaction is created with the placeholder nonce
SafeTransactionPlaceholderNonce(transactions, nonce) ==
  [transactions |-> MetaTransactions(transactions), nonce |-> 0]

NoTransaction == [transactions |-> <<>>, nonce |-> 0]
\* what protocolKit.createTransaction({transactions, options: {nonce}}) resolves to
SafeTransaction(transactions, nonce) ==
  [transactions |-> MetaTransactions(transactions), nonce |-> nonce]

NoHash == <<>>
\* protocolKit.getTransactionHash(tx): a 0x-prefixed digest of the transaction
TransactionHash(tx) == <<"0x", tx>>

NoSignature == [signer |-> <<>>, data |-> <<>>]
\* protocolKit.signHash(hash) with the proposer key as signer
Signature(key, hash) == [signer |-> <<"addressOf", key>>, data |-> <<"sig", key, hash>>]

\* ------------------------------------------------------- run(): inputs

\* what core.getInput returned, booleans after `=== 'true'`; the inputs
\* held at one value here are the ones run() only copies into arguments.
\* safe_dry_run, update_manifest and verify vary, and safe_proposer_key and
\* wallet_secret are empty, in the runs that leave the update check, the
\* working directory, the wallet import and the format, unsigned, output and
\* output_file inputs unset.
ActionInputs ==
  { i \in
  [ cliVersion       : {""},
    checkUpdates     : BOOLEAN,
    createUpdatePr   : BOOLEAN,
    config           : {""},
    deployment       : {"testnet"},
    encrypted        : {FALSE},
    feeDenom         : {""},
    force            : {FALSE},
    format           : {"", "json", "cbor"},
    gasLimit         : {""},
    gasPrice         : {""},
    machine          : {""},
    network          : {"testnet"},
    noContainer      : {FALSE},
    noUpdateManifest : {FALSE},
    updateManifest   : BOOLEAN,
    nonce            : {""},
    offer            : {""},
    offline          : {FALSE},
    onlyValidate     : BOOLEAN,
    output           : {"", "app.orc"},
    outputFile       : {"", "tx.cbor"},
    provider         : {""},
    replaceMachine   : {FALSE},
    showOffers       : {FALSE},
    term             : {""},
    termCount        : {""},
    unsigned         : BOOLEAN,
    verbose          : {FALSE},
    verify           : BOOLEAN,
    walletAccount    : {"deployer"},
    walletImport     : BOOLEAN,
    walletAlgorithm  : {""},
    walletNumber     : {""},
    walletSecret     : {"", "secret"},
    wipeStorage      : {FALSE},
    workingDirectory : {"", "app"},
    skipBuild        : BOOLEAN,
    skipUpdate       : BOOLEAN,
    skipDeploy       : BOOLEAN,
    updateOutputFile : {"", "update.cbor"},
    deployOutputFile : {"", "deploy.cbor"},
    safeAddress      : {"", "0x123"},
    safeProposerKey  : {"", "0xkey"},
    safeRpcUrl       : {""},
    safeServiceUrl   : {""},
    safeChainId      : {<<>>},
    safeDryRun       : BOOLEAN ] :
    (i.safeDryRun \/ i.updateManifest \/ i.verify
       \/ i.safeProposerKey = "" \/ i.walletSecret = "") =>
      /\ ~i.checkUpdates /\ ~i.createUpdatePr /\ ~i.walletImport /\ ~i.unsigned
      /\ i.workingDirectory = "" /\ i.format = "" /\ i.output = "" /\ i.outputFile = "" }

\* every input empty or false
NoActionInputs ==
  [ cliVersion |-> "", checkUpdates |-> FALSE, createUpdatePr |-> FALSE, config |-> "",
    deployment |-> "", encrypted |-> FALSE, feeDenom |-> "", force |-> FALSE,
    format |-> "", gasLimit |-> "", gasPrice |-> "", machine |-> "", network |-> "",
    noContainer |-> FALSE, noUpdateManifest |-> FALSE, updateManifest |-> FALSE,
    nonce |-> "", offer |-> "", offline |-> FALSE, onlyValidate |-> FALSE,
    output |-> "", outputFile |-> "", provider |-> "", replaceMachine |-> FALSE,
    showOffers |-> FALSE, term |-> "", termCount |-> "", unsigned |-> FALSE,
    verbose |-> FALSE, verify |-> FALSE, walletAccount |-> "", walletImport |-> FALSE,
    walletAlgorithm |-> "", walletNumber |-> "", walletSecret |-> "",
    wipeStorage |-> FALSE, workingDirectory |-> "", skipBuild |-> FALSE,
    skipUpdate |-> FALSE, skipDeploy |-> FALSE, updateOutputFile |-> "",
    deployOutputFile |-> "", safeAddress |-> "", safeProposerKey |-> "",
    safeRpcUrl |-> "", safeServiceUrl |-> "", safeChainId |-> <<>>,
    safeDryRun |-> FALSE ]

\* process.platform
Platforms == {"linux", "darwin"}

\* process.env.GITHUB_WORKSPACE || process.cwd()
Workspace == "/github/workspace"

\* path.isAbsolute
IsAbsolute(dir) == dir \in {"/", Workspace}

\* const absDir: the path as the sequence of its segments
AbsDir(dir) == IF IsAbsolute(dir) THEN <<dir>> ELSE <<Workspace, "/", dir>>

\* ---------------------------------------------------- run(): arguments

\* ...(value ? [flag, value] : [])
Opt(flag, value) == IF value # "" THEN <<flag, value>> ELSE <<>>
\* ...(on ? [flag] : [])
Flag(flag, on) == IF on THEN <<flag>> ELSE <<>>
\* a || b on strings
OrElse(a, b) == IF a # "" THEN a ELSE b

WalletImportArgs(i) ==
  <<"wallet", "import", i.walletAccount, "--yes">>
    \o Opt("--algorithm", i.walletAlgorithm)
    \o Opt("--config", i.config)
    \o Opt("--number", i.walletNumber)
    \o Opt("--secret", i.walletSecret)

\* the arguments are logged as they are
NotRedacted(args) == args

\* walletImportArgs.map((arg, i) => walletImportArgs[i - 1] === '--secret' ? '***' : arg)
RedactedWalletArgs(args) ==
  [ k \in DOMAIN args |-> IF k > 1 /\ args[k - 1] = "--secret" THEN "***" ELSE args[k] ]

ShouldVerify(i) == ~i.updateManifest /\ ~i.onlyValidate

BuildArgs(i) ==
  <<"rofl", "build">>
    \o Opt("--config", i.config)
    \o Opt("--deployment", i.deployment)
    \o Flag("--force", i.force)
    \o Flag("--no-container", i.noContainer)
    \o Flag("--no-update-manifest", i.noUpdateManifest /\ ~i.updateManifest)
    \o Flag("--offline", i.offline)
    \o Flag("--only-validate", i.onlyValidate)
    \o Opt("--output", i.output)
    \o Flag("--verbose", i.verbose)
    \o Flag("--verify", ShouldVerify(i) \/ i.verify)

\* const updateOutputFile
UpdateOutputFile(i) == OrElse(i.updateOutputFile, i.outputFile)

UpdateArgs(i) ==
  <<"rofl", "update", "--yes">>
    \o Opt("--account", i.walletAccount)
    \o Opt("--config", i.config)
    \o Opt("--deployment", i.deployment)
    \o Flag("--encrypted", i.encrypted)
    \o Opt("--fee-denom", i.feeDenom)
    \o Opt("--format", i.format)
    \o Opt("--gas-limit", i.gasLimit)
    \o Opt("--gas-price", i.gasPrice)
    \o Opt("--nonce", i.nonce)
    \o Flag("--offline", i.offline)
    \o Opt("--output-file", UpdateOutputFile(i))
    \o Flag("--unsigned", i.unsigned)

\* const deployOutputFile
DeployOutputFile(i) == OrElse(i.deployOutputFile, i.outputFile)

DeployArgs(i) ==
  <<"rofl", "deploy", "--yes">>
    \o Opt("--account", i.walletAccount)
    \o Opt("--config", i.config)
    \o Opt("--deployment", i.deployment)
    \o Flag("--encrypted", i.encrypted)
    \o Opt("--fee-denom", i.feeDenom)
    \o Flag("--force", i.force)
    \o Opt("--format", i.format)
    \o Opt("--gas-limit", i.gasLimit)
    \o Opt("--gas-price", i.gasPrice)
    \o Opt("--machine", i.machine)
    \o Opt("--nonce", i.nonce)
    \o Opt("--offer", i.offer)
    \o Flag("--offline", i.offline)
    \o Opt("--output-file", DeployOutputFile(i))
    \o Opt("--provider", i.provider)
    \o Flag("--replace-machine", i.replaceMachine)
    \o Flag("--show-offers", i.showOffers)
    \o Opt("--term", i.term)
    \o Opt("--term-count", i.termCount)
    \o Flag("--unsigned", i.unsigned)
    \o Flag("--wipe-storage", i.wipeStorage)

UpgradeArgs(i) == <<"rofl", "upgrade">> \o Opt("--deployment", i.deployment)

\* ---------------------------------------------------- run(): Safe mode

\* the inputs left as given
SafeModeAsGiven(i) == i

\* `inputs.unsigned = true` and `inputs.format = 'cbor'` under
\* `if (inputs.safeAddress)`
SafeMode(i) ==
  IF i.safeAddress # "" THEN [i EXCEPT !.unsigned = TRUE, !.format = "cbor"] ELSE i

\* the head of either message is split into its words
UpdateOutputFileRequired ==
  Err("Error", <<"Safe", "mode", "requires", "update_output_file",
                 "(or output_file) when update is enabled. ",
                 "This file will contain the unsigned CBOR transaction for Safe proposal.">>)
DeployOutputFileRequired ==
  Err("Error", <<"Safe", "mode", "requires", "deploy_output_file",
                 "(or output_file) when deploy is enabled. ",
                 "This file will contain the unsigned CBOR transaction for Safe proposal.">>)

\* what the two output-file checks of Safe mode throw, if anything
SafeModeError(i) ==
  IF i.safeAddress = "" THEN NoError
  ELSE IF ~i.skipUpdate /\ i.updateOutputFile = "" /\ i.outputFile = ""
    THEN UpdateOutputFileRequired
  ELSE IF ~i.skipDeploy /\ i.deployOutputFile = "" /\ i.outputFile = ""
    THEN DeployOutputFileRequired
  ELSE NoError

\* ----------------------------------------------- installOasisCLI: inputs

\* const DEFAULT_CLI_VERSION
DEFAULT_CLI_VERSION == <<"auto">>

\* export function getDefaultCLIVersion()
getDefaultCLIVersion == DEFAULT_CLI_VERSION

\* the versions installOasisCLI is called with: the two keywords, a plain and
\* a v-prefixed version, and the empty string
CliVersions == { <<"auto">>, <<"latest">>, <<"0.16.0">>, <<"v", "0.16.0">>, <<>> }

\* the tag_name of the latest release, as the API may answer it
ReleaseTags == { <<"v", "0.19.0">>, <<"0.19.0">>, <<"v", "v", "0.19.0">> }

\* a manifest file on disk: missing, not parseable, or parsed, with its
\* tooling.version (<<>> when the field is missing or empty)
NoFile == [found |-> FALSE, parses |-> FALSE, tooling |-> <<>>]
Unparseable == [found |-> TRUE, parses |-> FALSE, tooling |-> <<>>]
Manifest(tooling) == [found |-> TRUE, parses |-> TRUE, tooling |-> tooling]

\* one call of installOasisCLI: whether the argument is given, the argument,
\* os.platform(), os.arch(), rofl.yaml and rofl.yml
CliCalls ==
  { c \in [ given : BOOLEAN,
            version : CliVersions,
            platform : {"linux", "darwin", "win32", "sunos"},
            arch : {"x64", "arm64", "ia32"},
            yaml : {NoFile, Unparseable, Manifest(<<>>), Manifest(<<"0.18.0">>)},
            yml : {NoFile, Unparseable, Manifest(<<>>), Manifest(<<"0.17.0">>)} ] :
      ~c.given => c.version = <<>> }

NoCliCall ==
  [given |-> FALSE, version |-> <<>>, platform |-> "linux", arch |-> "x64",
   yaml |-> NoFile, yml |-> NoFile]

\* --------------------------------------------------------------- state

VARIABLES
  pc,              \* where the invocation is
  inputs,          \* runSafeProposal's SafeInputs argument
  files,           \* its TransactionFiles argument
  networkName,     \* its networkName argument
  nodeModules,     \* the packages installed under nodeModulesPath
  disk,            \* the artifact files generateTransactions found
  transactions,    \* what generateTransactions returned
  config,          \* rpcUrl, serviceUrl, chainId handed to the Safe kits
  attempt,         \* loop counter of the nonce loop
  nonce,           \* let nonce
  retryCount,      \* let retryCount of the proposal loop
  safeTransaction, \* what createTransaction resolved to
  safeTxHash,      \* what getTransactionHash resolved to
  signature,       \* what signHash resolved to
  lastError,       \* `error` of the catch block being executed, if any
  trace,           \* every external call so far, in program order
  proposals,       \* the argument of every apiKit.proposeTransaction call so far
  result           \* how the invocation ended

\* the state of one invocation of runSafeProposal
safeVars == << pc, inputs, files, networkName, nodeModules, disk, transactions, config,
               attempt, nonce, retryCount, safeTransaction, safeTxHash, signature,
               lastError, trace, proposals, result >>

VARIABLES
  stage,              \* where run() stands
  actionInputs,       \* const inputs of run(), as core.getInput returned them
  platform,           \* process.platform
  manifestFiles,      \* const manifestFiles of the update check
  remoteBranchExists, \* const remoteBranchExists of the update check
  existingPrUrl,      \* let existingPrUrl of the update check
  log,                \* every effect of run() so far, in program order
  outcome             \* how run() ended

\* the state of one invocation of run()
mainVars == << stage, actionInputs, platform, manifestFiles, remoteBranchExists,
              existingPrUrl,
               log, outcome >>

VARIABLES
  cliPc,           \* where installOasisCLI stands
  cliCall,         \* its argument, os.platform(), os.arch() and the manifests on disk
  version,         \* its `version` parameter
  resolvedVersion, \* let resolvedVersion
  tagName,         \* data.tag_name of the latest release, once fetched
  cliLog,          \* every effect of installOasisCLI so far, in program order
  cliResult        \* how installOasisCLI ended

\* the state of one invocation of installOasisCLI
cliVars == << cliPc, cliCall, version, resolvedVersion, tagName, cliLog, cliResult >>

vars == << safeVars, mainVars, cliVars >>

\* the promise of runSafeProposal: pending, resolved with undefined,
\* resolved with a hash, or rejected with an error
Pending == [kind |-> "pending", hash |-> NoHash, err |-> NoError]
ReturnUndefined == [kind |-> "undefined", hash |-> NoHash, err |-> NoError]
Return(hash) == [kind |-> "hash", hash |-> hash, err |-> NoError]
Throw(e) == [kind |-> "error", hash |-> NoHash, err |-> e]

NoDisk == [p \in Paths |-> Absent]

Init ==
  /\ pc = "idle"
  /\ inputs = CHOOSE i \in SafeInputs : TRUE
  /\ files = CHOOSE f \in TransactionFiles : TRUE
  /\ networkName = "mainnet"
  /\ nodeModules = {}
  /\ disk = NoDisk
  /\ transactions = <<>>
  /\ config = NoConfig
  /\ attempt = 0
  /\ nonce = 0
  /\ retryCount = 0
  /\ safeTransaction = NoTransaction
  /\ safeTxHash = NoHash
  /\ signature = NoSignature
  /\ lastError = NoError
  /\ trace = <<>>
  /\ proposals = <<>>
  /\ result = Pending
  /\ stage = "start"
  /\ actionInputs = NoActionInputs
  /\ platform = "linux"
  /\ manifestFiles = <<>>
  /\ remoteBranchExists = FALSE
  /\ existingPrUrl = ""
  /\ log = <<>>
  /\ outcome = "running"
  /\ cliPc = "idle"
  /\ cliCall = NoCliCall
  /\ version = <<>>
  /\ resolvedVersion = <<>>
  /\ tagName = <<>>
  /\ cliLog = <<>>
  /\ cliResult = [kind |-> "pending", dir |-> <<>>, err |-> NoError]

\* the invocation ends: the promise settles
Finish(r) == pc' = "done" /\ result' = r

\* ------------------------------------------------------ runSafeProposal

\* the proposer-key check left out
ValidateAddressOnly(i) ==
  IF ~i.safePropose THEN "skip"
  ELSE IF i.safeAddress = "" THEN "no_address"
  ELSE "propose"

\* what the checks at the head of runSafeProposal decide
Validate(i) ==
  IF ~i.safePropose THEN "skip"
  ELSE IF i.safeAddress = "" THEN "no_address"
  ELSE IF i.safeProposerKey = "" THEN "no_key"
  ELSE "propose"

RunSafeProposal ==
  /\ pc = "idle"
  /\ \E i \in SafeInputs, f \in TransactionFiles, n \in NetworkNames :
       /\ inputs' = i
       /\ files' = f
       /\ networkName' = n
       /\ CASE Validate(i) = "skip" -> Finish(ReturnUndefined)
            [] Validate(i) = "no_address" -> Finish(Throw(SafeAddressRequired))
            [] Validate(i) = "no_key" -> Finish(Throw(ProposerKeyRequired))
            [] OTHER -> pc' = "proposeToSafe" /\ UNCHANGED result
  /\ UNCHANGED << mainVars, cliVars >>
  /\ UNCHANGED proposals
  /\ UNCHANGED << lastError, nodeModules, disk, transactions, config, attempt, nonce, retryCount,
                  safeTransaction, safeTxHash, signature, trace >>

\* ---------------------------------------------------------- proposeToSafe

\* the NETWORKS lookup at the head of proposeToSafe
ResolveNetwork ==
  /\ pc = "proposeToSafe"
  /\ IF NetworkInfoMissing(networkName)
       THEN Finish(Throw(UnknownNetworkError(networkName)))
       ELSE pc' = "loadModules" /\ UNCHANGED result
  /\ UNCHANGED << mainVars, cliVars >>
  /\ UNCHANGED proposals
  /\ UNCHANGED << lastError, inputs, files, networkName, nodeModules, disk, transactions, config,
                  attempt, nonce, retryCount, safeTransaction, safeTxHash, signature,
                  trace >>

\* loadModule of xhr2 and the three Safe kits
LoadSafeModules ==
  /\ pc = "loadModules"
  /\ \E installed \in NodeModulesChoices :
       LET l == LoadModules(SafeModuleNames, installed) IN
       /\ nodeModules' = installed
       /\ trace' = trace \o l.calls
       /\ IF l.err # NoError
            THEN Finish(Throw(l.err))
            ELSE pc' = "generate" /\ UNCHANGED result
  /\ UNCHANGED << mainVars, cliVars >>
  /\ UNCHANGED proposals
  /\ UNCHANGED << lastError, inputs, files, networkName, disk, transactions, config, attempt, nonce,
                  retryCount, safeTransaction, safeTxHash, signature >>

\* the call of generateTransactions, which has no suspension point
GenerateTransactionsCall ==
  /\ pc = "generate"
  /\ \E d \in Disks(files), vU \in WrapperValues, vD \in WrapperValues :
       LET g == GenerateTransactions(files, networkName, nodeModules, d, vU, vD) IN
       /\ disk' = d
       /\ trace' = trace \o g.calls
       /\ IF g.err # NoError
            THEN Finish(Throw(g.err)) /\ UNCHANGED transactions
            ELSE pc' = "configure" /\ transactions' = g.txs /\ UNCHANGED result
  /\ UNCHANGED << mainVars, cliVars >>
  /\ UNCHANGED proposals
  /\ UNCHANGED << lastError, inputs, files, networkName, nodeModules, config, attempt, nonce,
                  retryCount, safeTransaction, safeTxHash, signature >>

\* the empty-batch test dropped
EmptyBatchAllowed(txs) == FALSE

\* `transactions.length === 0`
EmptyBatch(txs) == Len(txs) = 0

\* the empty-batch check, the override resolution and `new SafeApiKit`
Configure ==
  /\ pc = "configure"
  /\ LET networkInfo == NETWORKS[networkName]
         chainId == ChainId(inputs, networkInfo)
     IN IF EmptyBatch(transactions)
          THEN Finish(Throw(NoTransactionFilesError)) /\ UNCHANGED << config, trace >>
        ELSE IF ~chainId.ok
          THEN Finish(Throw(SyntaxError)) /\ UNCHANGED << config, trace >>
        ELSE /\ config' = [ rpcUrl     |-> RpcUrl(inputs, networkInfo),
                            serviceUrl |-> ServiceUrl(inputs, networkInfo),
                            chainId    |-> chainId.val ]
             /\ trace' = Append(trace, Call("new SafeApiKit", config'.serviceUrl, TRUE, config'.chainId))
             /\ pc' = "safeInit"
             /\ UNCHANGED result
  /\ UNCHANGED << mainVars, cliVars >>
  /\ UNCHANGED proposals
  /\ UNCHANGED << lastError, inputs, files, networkName, nodeModules, disk, transactions, attempt,
                  nonce, retryCount, safeTransaction, safeTxHash, signature >>

\* await Safe.init({provider, signer, safeAddress})
SafeInit ==
  /\ pc = "safeInit"
  /\ \/ /\ trace' = Append(trace, Call("Safe.init", config.rpcUrl, TRUE, 0))
        /\ pc' = "nonce"
        /\ attempt' = 1
        /\ UNCHANGED result
     \/ \E e \in ServiceErrors :
          /\ trace' = Append(trace, Call("Safe.init", config.rpcUrl, FALSE, 0))
          /\ Finish(Throw(e))
          /\ UNCHANGED attempt
  /\ UNCHANGED << mainVars, cliVars >>
  /\ UNCHANGED proposals
  /\ UNCHANGED << lastError, inputs, files, networkName, nodeModules, disk, transactions, config,
                  nonce, retryCount, safeTransaction, safeTxHash, signature >>

\* `attempt === nonceMaxRetries` in the catch block of the nonce loop
NonceExhausted(a) == a = nonceMaxRetries

\* one pass of the nonce loop body: await apiKit.getNextNonce(safeAddress)
GetNextNonce ==
  /\ pc = "nonce"
  /\ attempt <= nonceMaxRetries
  /\ \/ \E n \in 0..MaxNonce :
          /\ trace' = Append(trace, Call("getNextNonce", inputs.safeAddress, TRUE, n))
          /\ nonce' = n
          /\ pc' = "createTransaction"
          /\ UNCHANGED << lastError, result >>
     \/ \E e \in ServiceErrors :
          /\ trace' = Append(trace, Call("getNextNonce", inputs.safeAddress, FALSE, 0))
          /\ UNCHANGED nonce
          /\ lastError' = e
          /\ IF NonceExhausted(attempt)
               THEN Finish(Throw(NonceError(e)))
               ELSE pc' = "nonceBackoff" /\ UNCHANGED result
  /\ UNCHANGED << mainVars, cliVars >>
  /\ UNCHANGED proposals
  /\ UNCHANGED << inputs, files, networkName, nodeModules, disk, transactions, config,
                  attempt, retryCount, safeTransaction, safeTxHash, signature >>

\* await new Promise(resolve => setTimeout(resolve, 1000 * attempt)); attempt++
NonceBackoff ==
  /\ pc = "nonceBackoff"
  /\ trace' = Append(trace, Call("setTimeout", "nonce", TRUE, NonceDelay(attempt)))
  /\ attempt' = attempt + 1
  /\ lastError' = NoError
  /\ pc' = "nonce"
  /\ UNCHANGED << mainVars, cliVars >>
  /\ UNCHANGED proposals
  /\ UNCHANGED << inputs, files, networkName, nodeModules, disk, transactions, config,
                  nonce, retryCount, safeTransaction, safeTxHash, signature, result >>

\* await protocolKit.createTransaction({transactions, options: {nonce}})
CreateTransaction ==
  /\ pc = "createTransaction"
  /\ \/ /\ trace' = Append(trace, Call("createTransaction", inputs.safeAddress, TRUE, nonce))
        /\ safeTransaction' = SafeTransaction(transactions, nonce)
        /\ pc' = "getTransactionHash"
        /\ UNCHANGED result
     \/ \E e \in ServiceErrors :
          /\ trace' = Append(trace, Call("createTransaction", inputs.safeAddress, FALSE, nonce))
          /\ Finish(Throw(e))
          /\ UNCHANGED safeTransaction
  /\ UNCHANGED << mainVars, cliVars >>
  /\ UNCHANGED proposals
  /\ UNCHANGED << lastError, inputs, files, networkName, nodeModules, disk, transactions, config,
                  attempt, nonce, retryCount, safeTxHash, signature >>

\* await protocolKit.getTransactionHash(safeTransaction)
GetTransactionHash ==
  /\ pc = "getTransactionHash"
  /\ \/ /\ trace' = Append(trace, Call("getTransactionHash", inputs.safeAddress, TRUE, 0))
        /\ safeTxHash' = TransactionHash(safeTransaction)
        /\ pc' = "signHash"
        /\ UNCHANGED result
     \/ \E e \in ServiceErrors :
          /\ trace' = Append(trace, Call("getTransactionHash", inputs.safeAddress, FALSE, 0))
          /\ Finish(Throw(e))
          /\ UNCHANGED safeTxHash
  /\ UNCHANGED << mainVars, cliVars >>
  /\ UNCHANGED proposals
  /\ UNCHANGED << lastError, inputs, files, networkName, nodeModules, disk, transactions, config,
                  attempt, nonce, retryCount, safeTransaction, signature >>

\* the hash goes on unsigned: signHash is not called
SignHashSkipped ==
  /\ pc = "signHash"
  /\ pc' = "signed"
  /\ UNCHANGED << mainVars, cliVars >>
  /\ UNCHANGED << lastError, inputs, files, networkName, nodeModules, disk, transactions, config,
                  attempt, nonce, retryCount, safeTransaction, safeTxHash, signature, trace,
                  proposals, result >>

\* await protocolKit.signHash(safeTxHash)
SignHash ==
  /\ pc = "signHash"
  /\ \/ /\ trace' = Append(trace, Call("signHash", inputs.safeProposerKey, TRUE, 0))
        /\ signature' = Signature(inputs.safeProposerKey, safeTxHash)
        /\ pc' = "signed"
        /\ UNCHANGED result
     \/ \E e \in ServiceErrors :
          /\ trace' = Append(trace, Call("signHash", inputs.safeProposerKey, FALSE, 0))
          /\ Finish(Throw(e))
          /\ UNCHANGED signature
  /\ UNCHANGED << mainVars, cliVars >>
  /\ UNCHANGED proposals
  /\ UNCHANGED << lastError, inputs, files, networkName, nodeModules, disk, transactions, config,
                  attempt, nonce, retryCount, safeTransaction, safeTxHash >>

\* the proposal is sent without the transaction data
ProposalWithoutData(tx, hash, sig) ==
  [ safeTransactionData |-> NoTransaction,
    safeTxHash          |-> hash,
    senderAddress       |-> sig.signer,
    senderSignature     |-> sig.data ]

\* the argument of apiKit.proposeTransaction, but for safeAddress
Proposal(tx, hash, sig) ==
  [ safeTransactionData |-> tx,
    safeTxHash          |-> hash,
    senderAddress       |-> sig.signer,
    senderSignature     |-> sig.data ]

\* the dry-run test dropped: every run goes on to submit
IsDryRunIgnored(i) == FALSE

\* `if (inputs.dryRun)` after signing
IsDryRun(i) == i.dryRun

\* every run returns the hash after signing: nothing is submitted
ReturnUnsubmitted ==
  /\ pc = "signed"
  /\ Finish(Return(safeTxHash))
  /\ UNCHANGED << mainVars, cliVars >>
  /\ UNCHANGED << lastError, inputs, files, networkName, nodeModules, disk, transactions, config,
                  attempt, nonce, retryCount, safeTransaction, safeTxHash, signature, trace,
                  proposals >>

\* the dry-run branch returns the hash; otherwise the proposal loop starts
DryRunOrPropose ==
  /\ pc = "signed"
  /\ IF IsDryRun(inputs)
       THEN Finish(Return(safeTxHash)) /\ UNCHANGED retryCount
       ELSE pc' = "propose" /\ retryCount' = 0 /\ UNCHANGED result
  /\ UNCHANGED << mainVars, cliVars >>
  /\ UNCHANGED proposals
  /\ UNCHANGED << lastError, inputs, files, networkName, nodeModules, disk, transactions, config,
                  attempt, nonce, safeTransaction, safeTxHash, signature, trace >>

\* the proposal loop never gives up in its catch block
ProposeNeverExhausted(r) == FALSE

\* `retryCount > maxRetries` in the catch block of the proposal loop
ProposeExhausted(r) == r > maxRetries

\* the last error wrapped in a new Error, as the nonce loop does
RethrowWrapped(e) ==
  Err("Error", <<"Failed to propose transaction after all retries: ">> \o ErrorMessage(e))

\* `throw error` in the catch block of the proposal loop
Rethrow(e) == e

\* one pass of the proposal loop body: await protocolKit.getAddress(), then
\* await apiKit.proposeTransaction({...}); either may throw into the catch
ProposeTransaction ==
  /\ pc = "propose"
  /\ retryCount <= maxRetries
  /\ \/ /\ trace' = trace \o << Call("getAddress", inputs.safeAddress, TRUE, retryCount + 1),
                                Call("proposeTransaction", inputs.safeAddress, TRUE, retryCount + 1) >>
        /\ proposals' = Append(proposals, Proposal(safeTransaction, safeTxHash, signature))
        /\ Finish(Return(safeTxHash))
        /\ UNCHANGED << retryCount, lastError >>
     \/ \E e \in ServiceErrors, calls \in
            { << Call("getAddress", inputs.safeAddress, FALSE, retryCount + 1) >>,
              << Call("getAddress", inputs.safeAddress, TRUE, retryCount + 1),
                 Call("proposeTransaction", inputs.safeAddress, FALSE, retryCount + 1) >> } :
          /\ trace' = trace \o calls
          /\ proposals' = IF Len(calls) = 2
                            THEN Append(proposals, Proposal(safeTransaction, safeTxHash, signature))
                            ELSE proposals
          /\ retryCount' = retryCount + 1
          /\ lastError' = e
          /\ IF ProposeExhausted(retryCount')
               THEN Finish(Throw(Rethrow(lastError')))
               ELSE pc' = "proposeBackoff" /\ UNCHANGED result
  /\ UNCHANGED << mainVars, cliVars >>
  /\ UNCHANGED << inputs, files, networkName, nodeModules, disk, transactions, config,
                  attempt, nonce, safeTransaction, safeTxHash, signature >>

\* await new Promise(resolve => setTimeout(resolve, 1000 * retryCount))
ProposeBackoff ==
  /\ pc = "proposeBackoff"
  /\ trace' = Append(trace, Call("setTimeout", "propose", TRUE, ProposeDelay(retryCount)))
  /\ lastError' = NoError
  /\ pc' = "propose"
  /\ UNCHANGED << mainVars, cliVars >>
  /\ UNCHANGED proposals
  /\ UNCHANGED << inputs, files, networkName, nodeModules, disk, transactions, config,
                  attempt, nonce, retryCount, safeTransaction, safeTxHash, signature,
                  result >>

Next ==
  \/ RunSafeProposal
  \/ ResolveNetwork
  \/ LoadSafeModules
  \/ GenerateTransactionsCall
  \/ Configure
  \/ SafeInit
  \/ GetNextNonce
  \/ NonceBackoff
  \/ CreateTransaction
  \/ GetTransactionHash
  \/ SignHash
  \/ DryRunOrPropose
  \/ ProposeTransaction
  \/ ProposeBackoff

Spec == Init /\ [][Next]_vars

\* every awaited call settles: a step that can be taken is taken
FairSpec == Spec /\ WF_vars(Next)

\* ================================================================ run()

\* One invocation of run() is modelled from its call to the settling of its
\* promise.  The synchronous head is two actions; after it every awaited
\* call is one action, which also does the synchronous code that follows
\* the call up to the next await.  Every effect is appended to `log`.
\* runSafeProposal is awaited as a whole: what it resolves to or throws is
\* one of the results the runSafeProposal actions above end with.

\* ---------------------------------------------------------- run(): log

Effect(op, args, res, err) == [op |-> op, args |-> args, res |-> res, err |-> err]

\* exec.exec(cmd, args) that resolved with exit code `res`, or threw `err`
Exec(cmd, args, res, err) == Effect("exec", <<cmd>> \o args, res, err)
\* fs.existsSync(path)
Exists(path, found) == Effect("existsSync", path, IF found THEN "true" ELSE "false", NoError)
Chdir(path) == Effect("chdir", path, "ok", NoError)
SetOutput(name, value) == Effect("setOutput", <<name, value>>, "ok", NoError)
SetFailed(message) == Effect("setFailed", message, "ok", NoError)
Warning(message) == Effect("warning", message, "ok", NoError)
Info(message) == Effect("info", message, "ok", NoError)
Debug(message) == Effect("debug", message, "ok", NoError)

\* what exec.exec rejects with when the process exits non-zero
ExecError(cmd) ==
  Err("Error", <<"The process '", cmd, "' failed with exit code ", "1">>)
\* what exec.exec rejects with when the exit code is ignored: the tool is missing
SpawnError(cmd) == Err("Error", <<"Unable to locate executable file: ", cmd>>)
\* what installOasisCLI rejects with
CliInstallError == Err("Error", <<"Failed to install Oasis CLI">>)

WorkingDirectoryMissing(dir) ==
  <<"Working directory does not exist: ">> \o AbsDir(dir)
DependenciesWarning ==
  <<"Failed to install build dependencies via apt-get. ",
    "If running in a container or on a non-Debian system, ",
    "ensure these packages are pre-installed: ",
    "squashfs-tools, fakeroot, cryptsetup-bin, qemu-utils">>

\* the manifest files fs.existsSync can find, in the order they are pushed
ManifestChoices == { <<>>, <<"rofl.yaml">>, <<"rofl.yaml", "rofl.yml">> }
InList(x, list) == \E k \in DOMAIN list : list[k] = x

\* what the stdout listener of `gh pr list` / `gh pr create` collected
PrUrl == "https://github.com/org/repo/pull/1"
\* `rofl-update-${timestamp}`
BranchName == "rofl-update-YYYY-MM-DD"

\* what runSafeProposal resolves to or rejects with once its checks passed
ProposalOutcomes ==
  { [hash |-> h, err |-> NoError] : h \in {"0xhash1", "0xhash2"} }
    \cup { [hash |-> "", err |-> e] : e \in ServiceErrors }

\* safe_dry_run not handed on
SafeInputsLive(i) ==
  [ safePropose     |-> TRUE,
    safeAddress     |-> i.safeAddress,
    safeProposerKey |-> i.safeProposerKey,
    safeRpcUrl      |-> i.safeRpcUrl,
    safeServiceUrl  |-> i.safeServiceUrl,
    safeChainId     |-> i.safeChainId,
    grpcUrl         |-> "",
    deployment      |-> i.deployment,
    dryRun          |-> FALSE ]

\* const safeInputs
SafeInputsOf(i) ==
  [ safePropose     |-> TRUE,
    safeAddress     |-> i.safeAddress,
    safeProposerKey |-> i.safeProposerKey,
    safeRpcUrl      |-> i.safeRpcUrl,
    safeServiceUrl  |-> i.safeServiceUrl,
    safeChainId     |-> i.safeChainId,
    grpcUrl         |-> "",
    deployment      |-> i.deployment,
    dryRun          |-> i.safeDryRun ]

\* const txFiles
TxFilesOf(i) == [updateFile |-> UpdateOutputFile(i), deployFile |-> DeployOutputFile(i)]

\* --------------------------------------------------- run(): step order

\* Step 7 without the installation of the SDKs
FromSafeWithoutInstall(i) == IF i.safeAddress # "" THEN "runSafeProposal" ELSE "completed"

\* Step 7 is entered `if (inputs.safeAddress)`; otherwise run() completes
FromSafe(i) == IF i.safeAddress # "" THEN "npmInstall" ELSE "completed"

\* Step 6 is entered `if (!inputs.skipDeploy && !inputs.onlyValidate)`
FromDeploy(i) == IF ~i.skipDeploy /\ ~i.onlyValidate THEN "roflDeploy" ELSE FromSafe(i)

\* Step 5 entered whatever only_validate says
FromUpdateWhenValidating(i) == IF ~i.skipUpdate THEN "roflUpdate" ELSE FromDeploy(i)

\* Step 5 is entered `if (!inputs.skipUpdate && !inputs.onlyValidate)`
FromUpdate(i) == IF ~i.skipUpdate /\ ~i.onlyValidate THEN "roflUpdate" ELSE FromDeploy(i)

\* Step 4 is entered `if (!inputs.skipBuild)`
FromBuild(i) == IF ~i.skipBuild THEN "roflBuild" ELSE FromUpdate(i)

\* Step 3 left out on the platforms that skip Step 2
FromDependenciesPastNetwork(i, p) ==
  IF p = "linux" /\ ~i.skipBuild /\ ~i.onlyValidate THEN "aptGetUpdate"
  ELSE FromBuild(i)

\* Step 2 is entered on Linux unless the build is skipped or only validated
FromDependencies(i, p) ==
  IF p = "linux" /\ ~i.skipBuild /\ ~i.onlyValidate THEN "aptGetUpdate"
  ELSE "networkSetDefault"

\* Step 1.5 is entered `if (inputs.checkUpdates)`
FromInstall(i, p) == IF i.checkUpdates THEN "roflUpgrade" ELSE FromDependencies(i, p)

\* ------------------------------------------------------ run(): control

\* run() goes on to `next`, or falls off the end of the try block
Goto(next) ==
  IF next = "completed"
    THEN stage' = "done" /\ outcome' = "completed"
    ELSE stage' = next /\ UNCHANGED outcome

\* the update check falls through to Step 2 instead of returning
FallThrough == Goto(FromDependencies(actionInputs, platform))

\* `return` inside the try block
ReturnEarly == stage' = "done" /\ outcome' = "returned"

\* the awaited call resolved: `after` is what the code then logs
Resolve(entry, after, next) == log' = (log \o <<entry>>) \o after /\ Goto(next)

\* the awaited call rejected: the catch block of run() reports it
Reject(entry) ==
  /\ log' = log \o <<entry, SetFailed(ErrorMessage(entry.err))>>
  /\ stage' = "done"
  /\ outcome' = "failed"

\* an awaited exec.exec(cmd, args) with nothing to do after it
AwaitExec(at, cmd, args, next) ==
  /\ stage = at
  /\ \/ Resolve(Exec(cmd, args, "0", NoError), <<>>, next)
     \/ Reject(Exec(cmd, args, "throws", ExecError(cmd)))

\* ------------------------------------------------- run(): before Step 1

\* the existence test of the working directory dropped
DirectoryMissingIgnored(found) == FALSE

\* `!fs.existsSync(absDir)`
DirectoryMissing(found) == ~found

\* the inputs are collected and the working directory is entered
Start ==
  /\ stage = "start"
  /\ \E i \in ActionInputs, p \in Platforms, found \in BOOLEAN :
       LET \* JSON.stringify({...inputs, safeProposerKey: '***', walletSecret: '***'})
           collected == Debug(<<"Collected inputs: ",
                                [i EXCEPT !.safeProposerKey = "***", !.walletSecret = "***"]>>)
           built == Debug(<<"Built walletImportArgs: ">>
                            \o RedactedWalletArgs(WalletImportArgs(i)))
       IN
       /\ actionInputs' = i
       /\ platform' = p
       /\ IF i.workingDirectory = ""
            THEN found /\ log' = log \o <<collected, built>> /\ Goto("safeMode")
          ELSE IF DirectoryMissing(found)
            THEN /\ log' = log \o << collected,
                                     Exists(AbsDir(i.workingDirectory), found),
                                     SetFailed(WorkingDirectoryMissing(i.workingDirectory)) >>
                 /\ stage' = "done"
                 /\ outcome' = "failed"
          ELSE /\ log' = log \o << collected,
                                   Exists(AbsDir(i.workingDirectory), found),
                                   Chdir(AbsDir(i.workingDirectory)),
                                   Debug(<<"Changed working directory to: ">>
                                           \o AbsDir(i.workingDirectory)),
                                   built >>
               /\ Goto("safeMode")
  /\ UNCHANGED << manifestFiles, remoteBranchExists, existingPrUrl >>
  /\ UNCHANGED << safeVars, cliVars >>

\* the two core.info calls that announce a forced flag
SafeModeInfos(i) ==
  IF i.safeAddress = "" THEN <<>>
  ELSE (IF ~i.unsigned
          THEN <<Info(<<"Safe mode: automatically enabling unsigned transaction generation">>)>>
          ELSE <<>>)
       \o (IF i.format # "cbor"
             THEN <<Info(<<"Safe mode: automatically setting format to cbor">>)>>
             ELSE <<>>)

\* `if (inputs.safeAddress)`: the forced flags and the output-file checks,
\* then the warning of `if (inputs.updateManifest)`
\* the validation of Safe mode done after the CLI was installed
SafeModeChecksAfterInstall ==
  /\ stage = "safeMode"
  /\ actionInputs' = SafeMode(actionInputs)
  /\ LET e == SafeModeError(actionInputs)
         installed == Effect("installOasisCLI", <<actionInputs.cliVersion>>, "ok", NoError)
     IN IF e # NoError
          THEN /\ log' = log \o <<installed, SetFailed(ErrorMessage(e))>>
               /\ stage' = "done"
               /\ outcome' = "failed"
          ELSE log' = log \o <<installed>> /\ Goto(FromInstall(actionInputs, platform))
  /\ UNCHANGED << platform, manifestFiles, remoteBranchExists, existingPrUrl >>
  /\ UNCHANGED << safeVars, cliVars >>

SafeModeChecks ==
  /\ stage = "safeMode"
  /\ actionInputs' = SafeMode(actionInputs)
  /\ LET e == SafeModeError(actionInputs)
         infos == SafeModeInfos(actionInputs)
         warned == IF actionInputs.updateManifest
                     THEN <<Warning(<<"update_manifest is enabled">>)>>
                     ELSE <<>>
         built == << Debug(<<"Built buildArgs: ">> \o BuildArgs(SafeMode(actionInputs))),
                     Debug(<<"Built updateArgs: ">> \o UpdateArgs(SafeMode(actionInputs))),
                     Debug(<<"Built deployArgs: ">> \o DeployArgs(SafeMode(actionInputs))) >>
     IN IF e # NoError
          THEN /\ log' = (log \o infos) \o <<SetFailed(ErrorMessage(e))>>
               /\ stage' = "done"
               /\ outcome' = "failed"
          ELSE /\ log' = ((log \o infos) \o warned) \o built
               /\ Goto("installOasisCLI")
  /\ UNCHANGED << platform, manifestFiles, remoteBranchExists, existingPrUrl >>
  /\ UNCHANGED << safeVars, cliVars >>

\* ------------------------------------------------------- run(): Step 1

\* await installOasisCLI(inputs.cliVersion)
InstallOasisCLI ==
  /\ stage = "installOasisCLI"
  /\ \/ Resolve(Effect("installOasisCLI", <<actionInputs.cliVersion>>, "ok", NoError), <<>>,
                FromInstall(actionInputs, platform))
     \/ Reject(Effect("installOasisCLI", <<actionInputs.cliVersion>>, "throws", CliInstallError))
  /\ UNCHANGED << actionInputs, platform, manifestFiles, remoteBranchExists, existingPrUrl >>
  /\ UNCHANGED << safeVars, cliVars >>

\* ----------------------------------------------------- run(): Step 1.5

\* await exec.exec('oasis', upgradeArgs), then the manifest files are looked up
RoflUpgrade ==
  /\ stage = "roflUpgrade"
  /\ \/ \E m \in ManifestChoices :
          LET lookups == << Exists(<<"rofl.yaml">>, InList("rofl.yaml", m)),
                            Exists(<<"rofl.yml">>, InList("rofl.yml", m)) >>
          IN /\ manifestFiles' = m
             /\ IF Len(m) = 0
                  THEN /\ log' = (log \o <<Exec("oasis", UpgradeArgs(actionInputs), "0", NoError)>>)
                                   \o lookups
                                   \o << Warning(<<"No rofl.yaml or rofl.yml found in working directory">>),
                                         SetOutput("updates_available", "false") >>
                       /\ ReturnEarly
                  ELSE Resolve(Exec("oasis", UpgradeArgs(actionInputs), "0", NoError), lookups,
                               "gitDiff")
     \/ /\ Reject(Exec("oasis", UpgradeArgs(actionInputs), "throws", ExecError("oasis")))
        /\ UNCHANGED manifestFiles
  /\ UNCHANGED << actionInputs, platform, remoteBranchExists, existingPrUrl >>
  /\ UNCHANGED << safeVars, cliVars >>

\* the exit code of git diff disregarded
HasChangesNever(diffResult) == FALSE

\* `hasChanges = diffResult !== 0`
HasChanges(diffResult) == diffResult # "0"

\* await exec.exec('git', ['diff', ...], {ignoreReturnCode: true}), then
\* updates_available is set
GitDiff ==
  /\ stage = "gitDiff"
  /\ LET args == <<"diff", "--exit-code", "--">> \o manifestFiles
     IN \/ \E diffResult \in {"0", "1"} :
             LET available == IF HasChanges(diffResult) THEN "true" ELSE "false"
             IN /\ log' = log \o << Exec("git", args, diffResult, NoError),
                                    SetOutput("updates_available", available) >>
                /\ IF HasChanges(diffResult) /\ actionInputs.createUpdatePr
                     THEN Goto("ghPrList")
                     ELSE ReturnEarly
        \/ Reject(Exec("git", args, "throws", SpawnError("git")))
  /\ UNCHANGED << actionInputs, platform, manifestFiles, remoteBranchExists, existingPrUrl >>
  /\ UNCHANGED << safeVars, cliVars >>

\* await exec.exec('gh', ['pr', 'list', ...], {ignoreReturnCode: true}); an
\* open pull request ends the run
GhPrList ==
  /\ stage = "ghPrList"
  /\ LET args == <<"pr", "list", "--state", "open", "--search",
                   "chore: update ROFL artifacts in:title", "--json", "url", "--jq",
                   ".[0].url // empty">>
     IN \/ \E stdout \in {"", PrUrl} :
             /\ existingPrUrl' = stdout
             /\ IF stdout # ""
                  THEN /\ log' = log \o << Exec("gh", args, "0", NoError),
                                           SetOutput("update_pr_url", stdout),
                                           SetOutput("updates_available", "true") >>
                       /\ ReturnEarly
                  ELSE Resolve(Exec("gh", args, "0", NoError), <<>>, "gitConfigName")
        \/ /\ Reject(Exec("gh", args, "throws", SpawnError("gh")))
           /\ UNCHANGED existingPrUrl
  /\ UNCHANGED << actionInputs, platform, manifestFiles, remoteBranchExists >>
  /\ UNCHANGED << safeVars, cliVars >>

GitConfigName ==
  /\ AwaitExec("gitConfigName", "git", <<"config", "user.name", "github-actions[bot]">>,
               "gitConfigEmail")
  /\ UNCHANGED << actionInputs, platform, manifestFiles, remoteBranchExists, existingPrUrl >>
  /\ UNCHANGED << safeVars, cliVars >>

GitConfigEmail ==
  /\ AwaitExec("gitConfigEmail", "git",
               <<"config", "user.email", "github-actions[bot]@users.noreply.github.com">>,
               "gitLsRemote")
  /\ UNCHANGED << actionInputs, platform, manifestFiles, remoteBranchExists, existingPrUrl >>
  /\ UNCHANGED << safeVars, cliVars >>

\* await exec.exec('git', ['ls-remote', ...]): its output tells whether the
\* branch exists on the remote
GitLsRemote ==
  /\ stage = "gitLsRemote"
  /\ LET args == <<"ls-remote", "--heads", "origin", BranchName>>
     IN \/ \E found \in BOOLEAN :
             /\ remoteBranchExists' = found
             /\ Resolve(Exec("git", args, "0", NoError), <<>>, "gitCheckout")
        \/ /\ Reject(Exec("git", args, "throws", ExecError("git")))
           /\ UNCHANGED remoteBranchExists
  /\ UNCHANGED << actionInputs, platform, manifestFiles, existingPrUrl >>
  /\ UNCHANGED << safeVars, cliVars >>

GitCheckout ==
  /\ AwaitExec("gitCheckout", "git", <<"checkout", "-B", BranchName>>, "gitAdd")
  /\ UNCHANGED << actionInputs, platform, manifestFiles, remoteBranchExists, existingPrUrl >>
  /\ UNCHANGED << safeVars, cliVars >>

GitAdd ==
  /\ AwaitExec("gitAdd", "git", <<"add">> \o manifestFiles, "gitCommit")
  /\ UNCHANGED << actionInputs, platform, manifestFiles, remoteBranchExists, existingPrUrl >>
  /\ UNCHANGED << safeVars, cliVars >>

GitCommit ==
  /\ AwaitExec("gitCommit", "git",
               <<"commit", "-m", "chore: update rofl.yaml artifacts to latest versions">>,
               "gitPush")
  /\ UNCHANGED << actionInputs, platform, manifestFiles, remoteBranchExists, existingPrUrl >>
  /\ UNCHANGED << safeVars, cliVars >>

\* the push forced whether or not the branch is on the remote
PushArgsForced(exists) == <<"push", "-u", "origin", BranchName, "--force">>

\* const pushArgs
PushArgs(exists) == <<"push", "-u", "origin", BranchName>> \o Flag("--force", exists)

GitPush ==
  /\ AwaitExec("gitPush", "git", PushArgs(remoteBranchExists), "ghPrCreate")
  /\ UNCHANGED << actionInputs, platform, manifestFiles, remoteBranchExists, existingPrUrl >>
  /\ UNCHANGED << safeVars, cliVars >>

\* await exec.exec('gh', ['pr', 'create', ...]); update_pr_url is set and
\* the run returns
GhPrCreate ==
  /\ stage = "ghPrCreate"
  /\ LET args == <<"pr", "create", "--title",
                   "chore: update ROFL artifacts to latest versions", "--body", "## Summary">>
     IN \/ /\ log' = log \o << Exec("gh", args, "0", NoError),
                               SetOutput("update_pr_url", PrUrl) >>
           /\ ReturnEarly
        \/ Reject(Exec("gh", args, "throws", ExecError("gh")))
  /\ UNCHANGED << actionInputs, platform, manifestFiles, remoteBranchExists, existingPrUrl >>
  /\ UNCHANGED << safeVars, cliVars >>

\* ------------------------------------------------------- run(): Step 2

\* a rejected apt-get call is fatal
AptGetFatal(entry) == Reject(entry)

\* the catch block around the two apt-get calls: a warning, and on to Step 3
AptGetFailed(entry) ==
  /\ log' = log \o << entry, Warning(DependenciesWarning) >>
  /\ Goto("networkSetDefault")

AptGetUpdate ==
  /\ stage = "aptGetUpdate"
  /\ LET args == <<"apt-get", "update", "-qq">>
     IN \/ Resolve(Exec("sudo", args, "0", NoError), <<>>, "aptGetInstall")
        \/ AptGetFailed(Exec("sudo", args, "throws", ExecError("sudo")))
  /\ UNCHANGED << actionInputs, platform, manifestFiles, remoteBranchExists, existingPrUrl >>
  /\ UNCHANGED << safeVars, cliVars >>

AptGetInstall ==
  /\ stage = "aptGetInstall"
  /\ LET args == <<"apt-get", "install", "-y", "-qq", "squashfs-tools", "fakeroot",
                   "cryptsetup-bin", "qemu-utils">>
     IN \/ Resolve(Exec("sudo", args, "0", NoError), <<>>, "networkSetDefault")
        \/ AptGetFailed(Exec("sudo", args, "throws", ExecError("sudo")))
  /\ UNCHANGED << actionInputs, platform, manifestFiles, remoteBranchExists, existingPrUrl >>
  /\ UNCHANGED << safeVars, cliVars >>

\* ------------------------------------------------------- run(): Step 3

NetworkSetDefault ==
  /\ AwaitExec("networkSetDefault", "oasis", <<"network", "set-default", actionInputs.network>>,
               IF actionInputs.walletImport THEN "walletImport" ELSE FromBuild(actionInputs))
  /\ UNCHANGED << actionInputs, platform, manifestFiles, remoteBranchExists, existingPrUrl >>
  /\ UNCHANGED << safeVars, cliVars >>

WalletImport ==
  /\ AwaitExec("walletImport", "oasis", WalletImportArgs(actionInputs), "walletSetDefault")
  /\ UNCHANGED << actionInputs, platform, manifestFiles, remoteBranchExists, existingPrUrl >>
  /\ UNCHANGED << safeVars, cliVars >>

WalletSetDefault ==
  /\ AwaitExec("walletSetDefault", "oasis",
               <<"wallet", "set-default", actionInputs.walletAccount>>,
               FromBuild(actionInputs))
  /\ UNCHANGED << actionInputs, platform, manifestFiles, remoteBranchExists, existingPrUrl >>
  /\ UNCHANGED << safeVars, cliVars >>

\* -------------------------------------------------- run(): Steps 4 to 6

\* `if (value) core.setOutput(name, value)`
OutputIfSet(name, value) == IF value # "" THEN <<SetOutput(name, value)>> ELSE <<>>

RoflBuild ==
  /\ stage = "roflBuild"
  /\ \/ Resolve(Exec("oasis", BuildArgs(actionInputs), "0", NoError),
                OutputIfSet("build_output", actionInputs.output),
                FromUpdate(actionInputs))
     \/ Reject(Exec("oasis", BuildArgs(actionInputs), "throws", ExecError("oasis")))
  /\ UNCHANGED << actionInputs, platform, manifestFiles, remoteBranchExists, existingPrUrl >>
  /\ UNCHANGED << safeVars, cliVars >>

RoflUpdate ==
  /\ stage = "roflUpdate"
  /\ \/ Resolve(Exec("oasis", UpdateArgs(actionInputs), "0", NoError),
                OutputIfSet("update_file", UpdateOutputFile(actionInputs)),
                FromDeploy(actionInputs))
     \/ Reject(Exec("oasis", UpdateArgs(actionInputs), "throws", ExecError("oasis")))
  /\ UNCHANGED << actionInputs, platform, manifestFiles, remoteBranchExists, existingPrUrl >>
  /\ UNCHANGED << safeVars, cliVars >>

RoflDeploy ==
  /\ stage = "roflDeploy"
  /\ \/ Resolve(Exec("oasis", DeployArgs(actionInputs), "0", NoError),
                OutputIfSet("deploy_file", DeployOutputFile(actionInputs)),
                FromSafe(actionInputs))
     \/ Reject(Exec("oasis", DeployArgs(actionInputs), "throws", ExecError("oasis")))
  /\ UNCHANGED << actionInputs, platform, manifestFiles, remoteBranchExists, existingPrUrl >>
  /\ UNCHANGED << safeVars, cliVars >>

\* ------------------------------------------------------- run(): Step 7

NpmInstall ==
  /\ AwaitExec("npmInstall", "npm",
               <<"install", "--no-save", "@safe-global/protocol-kit@6.1.2",
                 "@safe-global/api-kit@4.0.1", "@safe-global/types-kit@3.0.0",
                 "@oasisprotocol/client@1.3.0", "@oasisprotocol/client-rt@1.3.0",
                 "xhr2@0.2.1">>,
               "runSafeProposal")
  /\ UNCHANGED << actionInputs, platform, manifestFiles, remoteBranchExists, existingPrUrl >>
  /\ UNCHANGED << safeVars, cliVars >>

\* the arguments run() hands to runSafeProposal, as the log keeps them
ProposalArgs(i) ==
  << SafeInputsOf(i).safeAddress, TxFilesOf(i).updateFile, TxFilesOf(i).deployFile, i.network,
     IF SafeInputsOf(i).dryRun THEN "dryRun" ELSE "live" >>

\* await runSafeProposal(safeInputs, txFiles, inputs.network, workspaceDir),
\* then safe_tx_hash is set `if (safeTxHash)`
SafeProposal ==
  /\ stage = "runSafeProposal"
  /\ LET args == ProposalArgs(actionInputs)
         check == Validate(SafeInputsOf(actionInputs))
     IN IF check = "no_address"
          THEN Reject(Effect("runSafeProposal", args, "throws", SafeAddressRequired))
        ELSE IF check = "no_key"
          THEN Reject(Effect("runSafeProposal", args, "throws", ProposerKeyRequired))
        ELSE \E r \in ProposalOutcomes :
               IF r.err # NoError
                 THEN Reject(Effect("runSafeProposal", args, "throws", r.err))
                 ELSE Resolve(Effect("runSafeProposal", args, r.hash, NoError),
                              OutputIfSet("safe_tx_hash", r.hash), "completed")
  /\ UNCHANGED << actionInputs, platform, manifestFiles, remoteBranchExists, existingPrUrl >>
  /\ UNCHANGED << safeVars, cliVars >>

RunNext ==
  \/ Start
  \/ SafeModeChecks
  \/ InstallOasisCLI
  \/ RoflUpgrade
  \/ GitDiff
  \/ GhPrList
  \/ GitConfigName
  \/ GitConfigEmail
  \/ GitLsRemote
  \/ GitCheckout
  \/ GitAdd
  \/ GitCommit
  \/ GitPush
  \/ GhPrCreate
  \/ AptGetUpdate
  \/ AptGetInstall
  \/ NetworkSetDefault
  \/ WalletImport
  \/ WalletSetDefault
  \/ RoflBuild
  \/ RoflUpdate
  \/ RoflDeploy
  \/ NpmInstall
  \/ SafeProposal

RunSpec == Init /\ [][RunNext]_vars

\* ====================================================== installOasisCLI

\* One invocation of installOasisCLI is modelled from its call to the
\* settling of its promise.  The synchronous head is two actions; after it
\* every awaited call is one action, which also does the synchronous code
\* that follows the call.  Every effect is appended to `cliLog`.

\* getPlatform(): the name used in the release file, "" when it throws
getPlatform(p) ==
  CASE p = "linux" -> "linux"
    [] p = "darwin" -> "darwin"
    [] p = "win32" -> "windows"
    [] OTHER -> ""

\* getArchitecture(): the name used in the release file, "" when it throws
getArchitecture(a) ==
  CASE a = "x64" -> "amd64"
    [] a = "arm64" -> "arm64"
    [] OTHER -> ""

\* `manifest?.tooling?.version` is truthy
HasToolingVersion(m) == m.found /\ m.parses /\ m.tooling # <<>>

\* getVersionFromRoflYaml(): the version, or <<>> for null
getVersionFromRoflYaml(yaml, yml) ==
  IF HasToolingVersion(yaml) THEN yaml.tooling
  ELSE IF HasToolingVersion(yml) THEN yml.tooling
  ELSE <<>>

\* the fs.existsSync calls of getVersionFromRoflYaml(): the loop returns at
\* the first file that has a version
ManifestLookups(yaml, yml) ==
  <<Exists(<<"rofl.yaml">>, yaml.found)>>
    \o (IF HasToolingVersion(yaml) THEN <<>> ELSE <<Exists(<<"rofl.yml">>, yml.found)>>)

\* the tag is used as the API gave it
TagAsGiven(tag) == tag

\* data.tag_name.replace(/^v/, '')
StripLeadingV(tag) == IF tag # <<>> /\ Head(tag) = "v" THEN Tail(tag) ELSE tag

\* const downloadUrl, with const filename
DownloadUrl(resolved, p, a) ==
  LET filename == (<<"oasis_cli_">> \o resolved)
                    \o <<"_", getPlatform(p), "_", getArchitecture(a), ".tar.gz">>
  IN ((<<"https://github.com/oasisprotocol/cli/releases/download/", "v">> \o resolved)
       \o <<"/">>) \o filename

\* const cliDir
CliDir(resolved, p, a) ==
  (<<"extracted", "/", "oasis_cli_">> \o resolved) \o <<"_", getPlatform(p), "_", getArchitecture(a)>>

\* installOasisCLI rejects with e
CliThrow(e) ==
  /\ cliPc' = "done"
  /\ cliResult' = [kind |-> "thrown", dir |-> <<>>, err |-> e]

\* installOasisCLI is called: the default parameter, getPlatform(), getArchitecture()
InstallCall ==
  /\ cliPc = "idle"
  /\ \E c \in CliCalls :
       /\ cliCall' = c
       /\ version' = IF c.given THEN c.version ELSE DEFAULT_CLI_VERSION
       /\ IF getPlatform(c.platform) = ""
            THEN CliThrow(Err("Error", <<"Unsupported platform: ", c.platform>>))
          ELSE IF getArchitecture(c.arch) = ""
            THEN CliThrow(Err("Error", <<"Unsupported architecture: ", c.arch>>))
          ELSE cliPc' = "resolve" /\ UNCHANGED cliResult
  /\ UNCHANGED << resolvedVersion, tagName, cliLog >>
  /\ UNCHANGED << safeVars, mainVars >>

\* `let resolvedVersion = version` and the if / else if that follows, up to
\* the fetch of getLatestVersion() or to tc.downloadTool
ResolveVersion ==
  /\ cliPc = "resolve"
  /\ IF version = <<"auto">>
       THEN LET yamlVersion == getVersionFromRoflYaml(cliCall.yaml, cliCall.yml)
                head == <<Info(<<"Resolving CLI version from rofl.yaml...">>)>>
                          \o ManifestLookups(cliCall.yaml, cliCall.yml)
            IN IF yamlVersion # <<>>
                 THEN /\ resolvedVersion' = yamlVersion
                      /\ cliLog' = (cliLog \o head)
                           \o <<Info((<<"Using CLI version ">> \o yamlVersion)
                                       \o <<" from rofl.yaml tooling.version">>)>>
                      /\ cliPc' = "download"
                 ELSE /\ resolvedVersion' = version
                      /\ cliLog' = (cliLog \o head)
                           \o <<Warning(<<"Could not find tooling.version in rofl.yaml. ",
                                          "Please update your rofl.yaml to include the tooling.version field (requires CLI >= 0.18), ",
                                          "or explicitly set cli_version in the action inputs. ",
                                          "Falling back to latest version.">>)>>
                      /\ cliPc' = "latest"
     ELSE IF version = <<"latest">>
       THEN /\ resolvedVersion' = version
            /\ cliLog' = cliLog \o <<Info(<<"Resolving latest CLI version...">>)>>
            /\ cliPc' = "latest"
     ELSE /\ resolvedVersion' = version
          /\ cliLog' = cliLog
          /\ cliPc' = "download"
  /\ UNCHANGED << cliCall, version, tagName, cliResult >>
  /\ UNCHANGED << safeVars, mainVars >>

\* resolvedVersion = await getLatestVersion()
GetLatestVersion ==
  /\ cliPc = "latest"
  /\ LET url == <<"https://api.github.com/repos/oasisprotocol/cli/releases/latest">>
     IN \/ \E tag \in ReleaseTags :
             /\ cliLog' = cliLog \o <<Effect("fetch", url, "ok", NoError)>>
             /\ tagName' = tag
             /\ resolvedVersion' = StripLeadingV(tag)
             /\ cliPc' = "download"
             /\ UNCHANGED cliResult
        \/ LET e == Err("Error", <<"Failed to fetch latest release: ", "404">>)
           IN /\ cliLog' = cliLog \o <<Effect("fetch", url, "not ok", NoError)>>
              /\ CliThrow(e)
              /\ UNCHANGED << tagName, resolvedVersion >>
        \/ LET e == Err("TypeError", <<"fetch failed">>)
           IN /\ cliLog' = cliLog \o <<Effect("fetch", url, "throws", e)>>
              /\ CliThrow(e)
              /\ UNCHANGED << tagName, resolvedVersion >>
  /\ UNCHANGED << cliCall, version >>
  /\ UNCHANGED << safeVars, mainVars >>

\* const pathToTarball = await tc.downloadTool(downloadUrl)
DownloadTool ==
  /\ cliPc = "download"
  /\ LET url == DownloadUrl(resolvedVersion, cliCall.platform, cliCall.arch)
         installing == Info(<<"Installing Oasis CLI version ">> \o resolvedVersion)
         e == Err("Error", <<"Download failed">>)
     IN \/ /\ cliLog' = cliLog \o <<installing, Effect("downloadTool", url, "ok", NoError)>>
           /\ cliPc' = "extract"
           /\ UNCHANGED cliResult
        \/ /\ cliLog' = cliLog \o <<installing, Effect("downloadTool", url, "throws", e)>>
           /\ CliThrow(e)
  /\ UNCHANGED << cliCall, version, resolvedVersion, tagName >>
  /\ UNCHANGED << safeVars, mainVars >>

\* const pathToCLI = await tc.extractTar(pathToTarball), then core.addPath(cliDir)
ExtractTar ==
  /\ cliPc = "extract"
  /\ LET cliDir == CliDir(resolvedVersion, cliCall.platform, cliCall.arch)
         e == Err("Error", <<"Extraction failed">>)
     IN \/ /\ cliLog' = cliLog \o << Effect("extractTar", <<"tarball">>, "ok", NoError),
                                      Effect("addPath", cliDir, "ok", NoError),
                                      Info((<<"Oasis CLI ">> \o resolvedVersion)
                                             \o <<" installed successfully">>) >>
           /\ cliPc' = "done"
           /\ cliResult' = [kind |-> "returned", dir |-> cliDir, err |-> NoError]
        \/ /\ cliLog' = cliLog \o <<Effect("extractTar", <<"tarball">>, "throws", e)>>
           /\ CliThrow(e)
  /\ UNCHANGED << cliCall, version, resolvedVersion, tagName >>
  /\ UNCHANGED << safeVars, mainVars >>

CliNext ==
  \/ InstallCall
  \/ ResolveVersion
  \/ GetLatestVersion
  \/ DownloadTool
  \/ ExtractTar

CliSpec == Init /\ [][CliNext]_vars

\* ============================================================== claims

\* positions in the call log of the calls of `op`
Calls(op) == { i \in DOMAIN trace : trace[i].op = op }
\* some call of `op` returned
Returned(op) == \E i \in Calls(op) : trace[i].ok
\* runSafeProposal has been called (its arguments are bound)
Called == pc # "idle"
\* the wallet service or the Safe kits have been contacted
WalletCalls ==
  Calls("getNextNonce") \cup Calls("proposeTransaction") \cup Calls("Safe.init")
  \cup Calls("new SafeApiKit")

\* C1: in a dry run the propose endpoint of the wallet service is never
\* invoked, and once signHash has returned the invocation returns the
\* computed, non-empty Safe transaction hash.
C1_DryRunNeverProposes ==
  (Called /\ inputs.dryRun) =>
    /\ Calls("proposeTransaction") = {}
    /\ Returned("signHash") =>
         \/ pc = "signed"
         \/ /\ pc = "done"
            /\ result.kind = "hash"
            /\ result.hash = TransactionHash(SafeTransaction(transactions, nonce))
            /\ Len(result.hash) > 0

C1_Witness ==
  /\ pc = "done"
  /\ inputs.dryRun
  /\ Returned("signHash")
  /\ result.kind = "hash"

\* generateTransactions got as far as looking at the artifact files
ReachedFiles ==
  /\ NetworkLookup(networkName) = "own"
  /\ \E i \in DOMAIN trace : trace[i] = Call("loadModule", "@oasisprotocol/client-rt", TRUE, 0)

\* neither configured path names an existing file
NeitherFileExists ==
  \A path \in {files.updateFile, files.deployFile} : path = "" \/ ~ExistsSync(disk, path)

\* C2: when generateTransactions finds neither the update nor the deploy
\* file, proposeToSafe throws 'No transaction files found to propose' and
\* makes no getNextNonce, proposeTransaction or Safe.init call.
C2_NoFilesRejected ==
  (ReachedFiles /\ NeitherFileExists) =>
    /\ pc \in {"configure", "done"}
    /\ pc = "done" => result = Throw(NoTransactionFilesError)
    /\ WalletCalls = {}

C2_Witness ==
  /\ pc = "done"
  /\ ReachedFiles
  /\ NeitherFileExists
  /\ files.updateFile # ""
  /\ files.deployFile # ""
  /\ result = Throw(NoTransactionFilesError)

\* the update artifact was found, decoded and carries a call
UpdateAccepted ==
  /\ files.updateFile # ""
  /\ \E i \in DOMAIN trace : trace[i] = Call("fromCBOR", files.updateFile, TRUE, 0)
  /\ disk[files.updateFile].hasCall

\* the deploy block found the deploy artifact and decoded it
DeployDecoded ==
  /\ files.deployFile # ""
  /\ \E i \in DOMAIN trace : trace[i] = Call("fromCBOR", files.deployFile, TRUE, 0)

\* the deploy artifact declares a (non-empty) method name
DeployDeclaresMethod ==
  /\ disk[files.deployFile].hasCall
  /\ disk[files.deployFile].hasMethod
  /\ disk[files.deployFile].method # <<>>

\* the method name begins with "roflmarket."
InRoflmarketFamily(m) == Len(m) >= 2 /\ m[1] = "roflmarket" /\ m[2] = "."

\* the descriptors that wrap an instance-execute-commands call
MarketDescriptors ==
  { i \in DOMAIN transactions : transactions[i].data[1] = "roflmarket.InstanceExecuteCmds" }

BothAccepted ==
  /\ UpdateAccepted
  /\ DeployDecoded
  /\ DeployDeclaresMethod
  /\ InRoflmarketFamily(disk[files.deployFile].method)

\* `list` is [update-descriptor, deploy-descriptor]
UpdateThenDeploy(list) ==
  /\ Len(list) = 2
  /\ list[1].data = <<"rofl.Update", disk[files.updateFile].body>>
  /\ list[2].data = <<"roflmarket.InstanceExecuteCmds", disk[files.deployFile].body>>

\* C4: when both artifacts are present and accepted, the descriptor list
\* built, and the list createTransaction is called with, is
\* [update-descriptor, deploy-descriptor] in that order.
C4_BatchOrder ==
  BothAccepted =>
    /\ UpdateThenDeploy(transactions)
    /\ Returned("createTransaction") => UpdateThenDeploy(safeTransaction.transactions)

C4_Witness ==
  /\ BothAccepted
  /\ Returned("createTransaction")
  /\ Len(safeTransaction.transactions) = 2

\* C10: a deploy artifact that exists and decodes but carries no method
\* field makes the flow fail with the unsupported-method error.
C10_MissingMethodRejected ==
  ( /\ DeployDecoded
    /\ disk[files.deployFile].hasCall
    /\ ~disk[files.deployFile].hasMethod ) =>
    /\ pc = "done"
    /\ result.kind = "error"
    /\ result.err.message[1] = "Unsupported deploy CBOR method: "

\* the nonce loop's part of the call log
IsNonceEntry(c) == c.op = "getNextNonce" \/ (c.op = "setTimeout" /\ c.arg = "nonce")
NonceLog == SelectSeq(trace, IsNonceEntry)
NonceFailed == Call("getNextNonce", inputs.safeAddress, FALSE, 0)
NonceAnswered(n) == Call("getNextNonce", inputs.safeAddress, TRUE, n)
NonceWait(ms) == Call("setTimeout", "nonce", TRUE, ms)
NonceFailures == { i \in Calls("getNextNonce") : ~trace[i].ok }

IsProposeEntry(c) ==
  c.op \in {"getAddress", "proposeTransaction"} \/ (c.op = "setTimeout" /\ c.arg = "propose")
ProposeLog == SelectSeq(trace, IsProposeEntry)
ProposeWait(ms) == Call("setTimeout", "propose", TRUE, ms)
ProposeFailures == { i \in DOMAIN ProposeLog : ~ProposeLog[i].ok }

\* C6: in live mode proposeTransaction is attempted at most 3 times; every
\* attempt after the first directly follows a wait of (attempt - 1) x 1000
\* ms, whatever the nonce loop went through; fewer than 3 failures never
\* end the flow; after 3 failed attempts the flow throws the last error
\* itself, unwrapped.
C6_ProposeRetryBudget ==
  Called =>
    /\ Cardinality(Calls("proposeTransaction")) <= 3
    /\ \A i \in DOMAIN ProposeLog :
         ProposeLog[i].op = "getAddress" =>
           /\ ProposeLog[i].n \in 1..3
           /\ ProposeLog[i].n = 1 => i = 1
           /\ ProposeLog[i].n > 1 =>
                /\ ProposeLog[i - 1] = ProposeWait(1000 * (ProposeLog[i].n - 1))
                /\ ~ProposeLog[i - 2].ok
    /\ (Cardinality(ProposeFailures) \in {1, 2} /\ ~Returned("proposeTransaction")) =>
         /\ pc \in {"proposeBackoff", "propose"}
         /\ result = Pending
    /\ Cardinality(ProposeFailures) = 3 =>
         /\ pc = "done"
         /\ lastError \in ServiceErrors
         /\ result = Throw(lastError)

C6_Witness ==
  /\ Cardinality(NonceFailures) = 2
  /\ Cardinality(ProposeFailures) = 3
  /\ Cardinality(Calls("proposeTransaction")) = 3
  /\ result.kind = "error"

\* C7: every network name other than exactly 'mainnet' or 'testnet' makes
\* proposeToSafe throw 'Unknown network: <name>...' before any module is
\* loaded or service contacted, and the two profiles have distinct runtime
\* identifiers and chain ids.
C7_UnknownNetworkRejected ==
  /\ NETWORKS.mainnet.runtimeId # NETWORKS.testnet.runtimeId
  /\ NETWORKS.mainnet.chainId # NETWORKS.testnet.chainId
  /\ ( /\ Called
       /\ Validate(inputs) = "propose"
       /\ pc # "proposeToSafe"
       /\ networkName \notin {"mainnet", "testnet"} ) =>
       /\ pc = "done"
       /\ result.kind = "error"
       /\ result.err.message =
            <<"Unknown network: ", networkName, ". Supported: mainnet, testnet">>
       /\ trace = <<>>

\* the decimal digits of a natural number
RECURSIVE Digits(_)
Digits(n) == IF n < 10 THEN <<n>> ELSE Append(Digits(n \div 10), n % 10)

\* the three values the proposal is to use
ExpectedRpcUrl ==
  IF inputs.safeRpcUrl # "" THEN inputs.safeRpcUrl ELSE NETWORKS[networkName].web3Api
ExpectedServiceUrl ==
  IF inputs.safeServiceUrl # "" THEN inputs.safeServiceUrl ELSE NETWORKS[networkName].safeApi
ChainIdAsExpected(n) ==
  IF inputs.safeChainId # <<>> THEN Digits(n) = inputs.safeChainId
  ELSE n = NETWORKS[networkName].chainId

\* C8: each of the RPC URL, the Safe service URL and the chain id handed to
\* the Safe kits is the caller's input when that input is non-empty and the
\* network profile's default otherwise, each independently of the others.
C8_OverridesTakePrecedence ==
  /\ config # NoConfig =>
       /\ config.rpcUrl = ExpectedRpcUrl
       /\ config.serviceUrl = ExpectedServiceUrl
       /\ ChainIdAsExpected(config.chainId)
  /\ \A i \in Calls("new SafeApiKit") :
       trace[i].arg = ExpectedServiceUrl /\ ChainIdAsExpected(trace[i].n)
  /\ \A i \in Calls("Safe.init") : trace[i].arg = ExpectedRpcUrl

C8_Witness ==
  /\ Returned("Safe.init")
  /\ inputs.safeRpcUrl = ""
  /\ inputs.safeServiceUrl # ""
  /\ inputs.safeChainId = <<4, 2>>
  /\ config.chainId = 42
  /\ config.rpcUrl = "https://testnet.sapphire.oasis.io"

\* C9: with safePropose set and the Safe address or the proposer key empty,
\* runSafeProposal throws the '... is required' error having made no call
\* at all (no network resolution, module load, file read, RPC or service
\* call); with safePropose unset it returns undefined, again with no call.
C9_ValidationFailsFast ==
  Called =>
    /\ ~inputs.safePropose =>
         pc = "done" /\ result = ReturnUndefined /\ trace = <<>>
    /\ (inputs.safePropose /\ inputs.safeAddress = "") =>
         /\ pc = "done"
         /\ result.kind = "error"
         /\ result.err.message = <<"safe_address is required when safe_propose is enabled">>
         /\ trace = <<>>
    /\ (inputs.safePropose /\ inputs.safeAddress # "" /\ inputs.safeProposerKey = "") =>
         /\ pc = "done"
         /\ result.kind = "error"
         /\ result.err.message = <<"safe_proposer_key is required when safe_propose is enabled">>
         /\ trace = <<>>

C9_Witness ==
  /\ pc = "done"
  /\ inputs.safePropose
  /\ inputs.safeAddress # ""
  /\ inputs.safeProposerKey = ""
  /\ networkName = "devnet"
  /\ result.kind = "error"

\* ====================================================== claims on run()

\* `e` is an exec.exec of `cmd` whose arguments begin with `head`
IsExec(e, cmd, head) ==
  /\ e.op = "exec"
  /\ Len(e.args) >= 1 + Len(head)
  /\ e.args[1] = cmd
  /\ \A k \in DOMAIN head : e.args[k + 1] = head[k]
\* such a command has been started
Executed(cmd, head) == \E k \in DOMAIN log : IsExec(log[k], cmd, head)
IsRoflBuild(e) == IsExec(e, "oasis", <<"rofl", "build">>)
IsRoflUpdate(e) == IsExec(e, "oasis", <<"rofl", "update">>)
IsRoflDeploy(e) == IsExec(e, "oasis", <<"rofl", "deploy">>)
\* `flag value` occurs in the argument list
Carries(args, flag, value) ==
  \E k \in 1..(Len(args) - 1) : args[k] = flag /\ args[k + 1] = value
\* core.info / core.warning / core.setFailed was called with `message`
Logged(op, message) == \E k \in DOMAIN log : log[k].op = op /\ log[k].args = message

\* C11: whenever safe_address is non-empty, every 'oasis rofl update' and
\* 'oasis rofl deploy' command run() executes carries '--format cbor' and
\* '--unsigned', whatever the format and unsigned inputs were.
C11_SafeModeForcesFlags ==
  actionInputs.safeAddress # "" =>
    \A k \in DOMAIN log :
      IsRoflUpdate(log[k]) \/ IsRoflDeploy(log[k]) =>
        /\ Carries(log[k].args, "--format", "cbor")
        /\ InList("--unsigned", log[k].args)

\* both flags had to be forced, and both commands were executed
C11_Witness ==
  /\ actionInputs.safeAddress # ""
  /\ Logged("info", <<"Safe mode: automatically enabling unsigned transaction generation">>)
  /\ Logged("info", <<"Safe mode: automatically setting format to cbor">>)
  /\ \E k \in DOMAIN log : IsRoflUpdate(log[k])
  /\ \E k \in DOMAIN log : IsRoflDeploy(log[k])

\* `part` occurs in `message` as a run of consecutive pieces
Contains(message, part) ==
  \E k \in 0..(Len(message) - Len(part)) : SubSeq(message, k + 1, k + Len(part)) = part
\* run() reported a failure whose message contains `part`
FailedWith(part) ==
  \E k \in DOMAIN log : log[k].op = "setFailed" /\ Contains(log[k].args, part)
\* run() has ended and got past the working-directory step
EndedPastWorkingDirectory ==
  /\ stage = "done"
  /\ ~FailedWith(<<"Working directory does not exist: ">>)

\* C12: when safe_address is set and skip_deploy is not true, run() ends
\* in failure with a message containing
\* 'Safe wallet mode requires skip_deploy: true'.
C12_SafeModeRequiresSkipDeploy ==
  EndedPastWorkingDirectory /\ actionInputs.safeAddress # "" /\ ~actionInputs.skipDeploy =>
    /\ outcome = "failed"
    /\ FailedWith(<<"Safe", "wallet", "mode", "requires", "skip_deploy:", "true">>)

\* C13: when safe_address is set, the update step is enabled and neither
\* update_output_file nor output_file is given, run() ends in failure with
\* a message containing 'Safe wallet mode requires update_output_file'.
C13_SafeModeRequiresUpdateFile ==
  /\ EndedPastWorkingDirectory
  /\ actionInputs.safeAddress # ""
  /\ ~actionInputs.skipUpdate
  /\ actionInputs.updateOutputFile = ""
  /\ actionInputs.outputFile = ""
  => /\ outcome = "failed"
     /\ FailedWith(<<"Safe", "wallet", "mode", "requires", "update_output_file">>)

\* `e` belongs to the steps after the update check: network set-default,
\* wallet import, rofl build / update / deploy, the SDK npm install, the
\* Safe proposal
IsDeploymentStep(e) ==
  \/ IsExec(e, "oasis", <<"network", "set-default">>)
  \/ IsExec(e, "oasis", <<"wallet", "import">>)
  \/ IsRoflBuild(e)
  \/ IsRoflUpdate(e)
  \/ IsRoflDeploy(e)
  \/ IsExec(e, "npm", <<"install">>)
  \/ e.op = "runSafeProposal"

\* C14: when check_updates is true, run() never executes network
\* set-default, wallet import, rofl build, rofl update, rofl deploy, the SDK
\* npm install or the Safe proposal, on any path through the update check.
C14_CheckUpdatesShortCircuits ==
  actionInputs.checkUpdates => \A k \in DOMAIN log : ~IsDeploymentStep(log[k])

\* the update check ran to the creation of a pull request, in a run whose
\* inputs enable every later step
C14_Witness ==
  /\ stage = "done"
  /\ outcome = "returned"
  /\ actionInputs.checkUpdates
  /\ actionInputs.walletImport
  /\ ~actionInputs.skipBuild /\ ~actionInputs.skipUpdate /\ ~actionInputs.skipDeploy
  /\ ~actionInputs.onlyValidate
  /\ actionInputs.safeAddress # ""
  /\ Executed("gh", <<"pr", "create">>)

\* the positions of the log where output `name` was set
OutputSets(name) ==
  { k \in DOMAIN log : log[k].op = "setOutput" /\ log[k].args[1] = name }
\* output `name` has been set, and the value it was last set to is `value`
OutputIs(name, value) ==
  \E k \in OutputSets(name) :
    /\ log[k].args[2] = value
    /\ \A j \in OutputSets(name) : j <= k
\* neither rofl.yaml nor rofl.yml was found
NoManifest ==
  /\ \E k \in DOMAIN log : log[k] = Exists(<<"rofl.yaml">>, FALSE)
  /\ \E k \in DOMAIN log : log[k] = Exists(<<"rofl.yml">>, FALSE)
\* git diff on the manifest files exited with `code`
DiffExited(code) ==
  \E k \in DOMAIN log : IsExec(log[k], "git", <<"diff", "--exit-code">>) /\ log[k].res = code

\* C15: in check_updates mode updates_available is 'false' when no manifest
\* file exists or git diff on the manifest files exits 0, and 'true' when it
\* exits non-zero; outside check_updates mode the output is never set.
C15_UpdatesAvailable ==
  /\ NoManifest => OutputIs("updates_available", "false")
  /\ DiffExited("0") => OutputIs("updates_available", "false")
  /\ DiffExited("1") => OutputIs("updates_available", "true")
  /\ OutputSets("updates_available") # {} => actionInputs.checkUpdates

\* git diff found changes and an open pull request ended the run: the
\* output was set twice
C15_Witness ==
  /\ stage = "done"
  /\ DiffExited("1")
  /\ Cardinality(OutputSets("updates_available")) = 2
  /\ OutputIs("updates_available", "true")

\* a command of this kind was executed and resolved
Succeeded(cmd, head) ==
  \E k \in DOMAIN log : IsExec(log[k], cmd, head) /\ log[k].res = "0"
\* Step 3 succeeded: nothing stands between the run and Step 4
BuildDue ==
  /\ Succeeded("oasis", <<"network", "set-default">>)
  /\ actionInputs.walletImport => Succeeded("oasis", <<"wallet", "set-default">>)
\* ... and Step 4 was skipped or succeeded
UpdateDue ==
  /\ BuildDue
  /\ ~actionInputs.skipBuild => Succeeded("oasis", <<"rofl", "build">>)
\* ... and Step 5 was skipped or succeeded
DeployDue ==
  /\ UpdateDue
  /\ ~actionInputs.skipUpdate /\ ~actionInputs.onlyValidate =>
       Succeeded("oasis", <<"rofl", "update">>)

\* C16: in a run without check_updates whose earlier steps succeed,
\* 'oasis rofl build' is executed iff skip_build is false, 'oasis rofl
\* update' iff skip_update and only_validate are false, 'oasis rofl deploy'
\* iff skip_deploy and only_validate are false.
C16_SkipFlags ==
  /\ Executed("oasis", <<"rofl", "build">>) => ~actionInputs.skipBuild
  /\ Executed("oasis", <<"rofl", "update">>) =>
       ~actionInputs.skipUpdate /\ ~actionInputs.onlyValidate
  /\ Executed("oasis", <<"rofl", "deploy">>) =>
       ~actionInputs.skipDeploy /\ ~actionInputs.onlyValidate
  /\ stage = "done" /\ ~actionInputs.checkUpdates =>
       /\ BuildDue /\ ~actionInputs.skipBuild => Executed("oasis", <<"rofl", "build">>)
       /\ UpdateDue /\ ~actionInputs.skipUpdate /\ ~actionInputs.onlyValidate =>
            Executed("oasis", <<"rofl", "update">>)
       /\ DeployDue /\ ~actionInputs.skipDeploy /\ ~actionInputs.onlyValidate =>
            Executed("oasis", <<"rofl", "deploy">>)

\* only_validate alone keeps update and deploy from running after the build
C16_Witness ==
  /\ stage = "done"
  /\ outcome = "completed"
  /\ actionInputs.onlyValidate
  /\ ~actionInputs.skipBuild /\ ~actionInputs.skipUpdate /\ ~actionInputs.skipDeploy
  /\ Executed("oasis", <<"rofl", "build">>)
  /\ ~Executed("oasis", <<"rofl", "update">>)
  /\ ~Executed("oasis", <<"rofl", "deploy">>)

\* working_directory is set and fs.existsSync did not find the resolved
\* directory
WorkingDirectoryNotFound ==
  /\ actionInputs.workingDirectory # ""
  /\ \E k \in DOMAIN log : log[k] = Exists(AbsDir(actionInputs.workingDirectory), FALSE)

\* C17: when working_directory is set and the resolved directory does not
\* exist, run() reports the failure 'Working directory does not exist' and
\* performs no chdir, no CLI installation and no subprocess execution.
C17_MissingWorkingDirectory ==
  WorkingDirectoryNotFound =>
    /\ stage = "done"
    /\ outcome = "failed"
    /\ Logged("setFailed", WorkingDirectoryMissing(actionInputs.workingDirectory))
    /\ FailedWith(<<"Working directory does not exist: ">>)
    /\ \A k \in DOMAIN log :
         log[k].op \notin {"chdir", "installOasisCLI", "exec", "runSafeProposal"}

\* the directory was looked up and not found, in a run that asks for a build
C17_Witness ==
  /\ WorkingDirectoryNotFound
  /\ ~actionInputs.skipBuild
  /\ ~actionInputs.checkUpdates
  /\ Len(log) = 3

IsAptGet(e) == IsExec(e, "sudo", <<"apt-get">>)
\* the apt-get calls that threw
AptGetFailures == { k \in DOMAIN log : IsAptGet(log[k]) /\ log[k].res = "throws" }

\* C18: build-dependency installation via apt-get is attempted only on
\* Linux when neither skip_build nor only_validate is set, and its failure
\* is never fatal: a warning is emitted, setFailed is not called for it, and
\* the run continues with network setup and the build step.
C18_AptGetSoftFail ==
  /\ (\E k \in DOMAIN log : IsAptGet(log[k])) =>
       platform = "linux" /\ ~actionInputs.skipBuild /\ ~actionInputs.onlyValidate
  /\ \A k \in AptGetFailures :
       /\ k < Len(log)
       /\ log[k + 1] = Warning(DependenciesWarning)
       /\ ~Logged("setFailed", ErrorMessage(log[k].err))
       /\ \/ stage = "networkSetDefault"
          \/ \E j \in (k + 1)..Len(log) : IsExec(log[j], "oasis", <<"network", "set-default">>)
       /\ stage = "done" /\ BuildDue => \E j \in (k + 1)..Len(log) : IsRoflBuild(log[j])

\* apt-get install threw, and the run went on to build and completed
C18_Witness ==
  /\ \E k \in AptGetFailures : IsExec(log[k], "sudo", <<"apt-get", "install">>)
  /\ stage = "done"
  /\ outcome = "completed"
  /\ Succeeded("oasis", <<"rofl", "build">>)

\* the awaited calls, other than apt-get, that threw
Throws == { k \in DOMAIN log : log[k].res = "throws" /\ ~IsAptGet(log[k]) }
SetFailedCalls == { k \in DOMAIN log : log[k].op = "setFailed" }

\* C19: for every stage of run() other than the apt-get install (CLI
\* install, any oasis/git/gh/npm subprocess, the Safe proposal): if it
\* throws, no later stage is executed, setFailed is called exactly once,
\* with the error's message, and run() itself resolves (stage "done" with
\* outcome "failed" is the resolved promise of a run that reported failure).
C19_FailureAborts ==
  \A k \in Throws :
    /\ Len(log) = k + 1
    /\ log[k + 1].op = "setFailed"
    /\ log[k + 1].args = log[k].err.message
    /\ SetFailedCalls = {k + 1}
    /\ stage = "done"
    /\ outcome = "failed"

\* the last stage, the Safe proposal, threw after update and deploy had run
C19_Witness ==
  /\ \E k \in Throws : log[k].op = "runSafeProposal"
  /\ Succeeded("oasis", <<"rofl", "update">>)
  /\ Succeeded("oasis", <<"rofl", "deploy">>)

\* C20: if run() ends in failure, no output value (build_output,
\* update_file, deploy_file, safe_tx_hash, updates_available,
\* update_pr_url) has been set during that run.
C20_NoOutputsOnFailure ==
  stage = "done" /\ outcome = "failed" => \A k \in DOMAIN log : log[k].op # "setOutput"

\* the positions of the log where runSafeProposal was awaited
SafeProposalCalls == { k \in DOMAIN log : log[k].op = "runSafeProposal" }
\* Steps 3 to 6 were skipped or succeeded, and so did the SDK installation
ProposalDue ==
  /\ DeployDue
  /\ ~actionInputs.skipDeploy /\ ~actionInputs.onlyValidate =>
       Succeeded("oasis", <<"rofl", "deploy">>)
  /\ actionInputs.safeAddress # "" => Succeeded("npm", <<"install">>)

\* C21: in a run without check_updates whose earlier steps succeed,
\* runSafeProposal is invoked iff safe_address is non-empty, whatever the
\* skip flags and only_validate are, with dryRun equal to the safe_dry_run
\* input; safe_tx_hash is set to exactly the hash it returns and in no other
\* case.
C21_SafeProposalInvocation ==
  /\ Cardinality(SafeProposalCalls) <= 1
  /\ \A k \in SafeProposalCalls :
       /\ actionInputs.safeAddress # ""
       /\ log[k].args[1] = actionInputs.safeAddress
       /\ log[k].args[5] = (IF actionInputs.safeDryRun THEN "dryRun" ELSE "live")
       /\ log[k].res # "throws" => OutputIs("safe_tx_hash", log[k].res)
  /\ stage = "done" /\ ~actionInputs.checkUpdates /\ ProposalDue =>
       (actionInputs.safeAddress # "" <=> SafeProposalCalls # {})
  /\ \A k \in OutputSets("safe_tx_hash") :
       /\ k - 1 \in SafeProposalCalls
       /\ log[k].args[2] = log[k - 1].res

\* a dry-run proposal made with every step skipped
C21_Witness ==
  /\ stage = "done"
  /\ outcome = "completed"
  /\ actionInputs.skipBuild /\ actionInputs.skipUpdate /\ actionInputs.skipDeploy
  /\ actionInputs.safeDryRun
  /\ \E k \in SafeProposalCalls : log[k].args[5] = "dryRun"
  /\ OutputIs("safe_tx_hash", "0xhash2")

IsNpmInstall(e) == IsExec(e, "npm", <<"install", "--no-save">>)

\* C22: the runtime npm install of the Safe and Oasis SDK packages is
\* executed only when safe_address is non-empty, and then it has completed
\* before runSafeProposal is invoked; a run without safe_address neither
\* installs the SDKs nor enters the flow that loads them.
C22_SdkInstallBeforeProposal ==
  /\ \A k \in DOMAIN log : IsNpmInstall(log[k]) => actionInputs.safeAddress # ""
  /\ \A k \in SafeProposalCalls :
       \E j \in 1..(k - 1) : IsNpmInstall(log[j]) /\ log[j].res = "0"
  /\ actionInputs.safeAddress = "" =>
       \A k \in DOMAIN log : ~IsNpmInstall(log[k]) /\ log[k].op # "runSafeProposal"

\* the installation completed and the live proposal that followed it
\* returned a hash
C22_Witness ==
  /\ \E k \in SafeProposalCalls :
       /\ IsNpmInstall(log[k - 1])
       /\ log[k].args[5] = "live"
       /\ log[k].res = "0xhash1"
  /\ outcome = "completed"

\* C23: `oasis rofl build` carries --verify when update_manifest and
\* only_validate are both false, and never carries it when update_manifest is
\* true, whatever the verify input is.
C23_VerifyUnlessUpdateManifest ==
  \A k \in DOMAIN log :
    IsRoflBuild(log[k]) =>
      /\ (~actionInputs.updateManifest /\ ~actionInputs.onlyValidate
            => InList("--verify", log[k].args))
      /\ (actionInputs.updateManifest => ~InList("--verify", log[k].args))

\* ============================================ claims on installOasisCLI

CliEffects(op) == { k \in DOMAIN cliLog : cliLog[k].op = op }
CliSucceeded(op) == { k \in CliEffects(op) : cliLog[k].res = "ok" }

\* C24: the default CLI version is 'latest': getDefaultCLIVersion returns
\* it, and installOasisCLI called without an argument takes 'latest' as its
\* version.
C24_DefaultIsLatest ==
  cliPc # "idle" /\ ~cliCall.given =>
    /\ getDefaultCLIVersion = <<"latest">>
    /\ version = <<"latest">>

\* the platform checks passed and the if / else if on `version` was executed
PastResolve ==
  \/ cliPc \in {"latest", "download", "extract"}
  \/ cliPc = "done" /\ cliLog # <<>>

\* the download has been requested, so the version to download is resolved
VersionResolved == CliEffects("downloadTool") # {}

\* resolvedVersion is the fetched tag without one leading v
TagStripped ==
  /\ CliSucceeded("fetch") # {}
  /\ IF tagName # <<>> /\ tagName[1] = "v"
       THEN tagName = <<"v">> \o resolvedVersion
       ELSE tagName = resolvedVersion

\* C25: an explicit version is downloaded as given without any query of the
\* latest-release API; 'latest' queries the API and downloads its tag
\* without the leading v; 'auto' downloads tooling.version of rofl.yaml,
\* else of rofl.yml, and queries the API only when neither file yields a
\* version; core.addPath is called only after tc.downloadTool and
\* tc.extractTar both resolved.
C25_VersionResolution ==
  /\ \A k \in CliEffects("downloadTool") :
       cliLog[k].args = DownloadUrl(resolvedVersion, cliCall.platform, cliCall.arch)
  /\ (cliPc # "idle" /\ version \notin {<<"auto">>, <<"latest">>}) =>
       /\ CliEffects("fetch") = {}
       /\ VersionResolved => resolvedVersion = version
  /\ (version = <<"latest">> /\ PastResolve) =>
       /\ CliEffects("existsSync") = {}
       /\ VersionResolved => TagStripped
  /\ (version = <<"auto">> /\ PastResolve) =>
       IF HasToolingVersion(cliCall.yaml)
         THEN CliEffects("fetch") = {} /\ resolvedVersion = cliCall.yaml.tooling
       ELSE IF HasToolingVersion(cliCall.yml)
         THEN CliEffects("fetch") = {} /\ resolvedVersion = cliCall.yml.tooling
       ELSE VersionResolved => TagStripped
  /\ \A k \in CliEffects("addPath") :
       \E i, j \in 1..(k - 1) :
         /\ i < j
         /\ i \in CliSucceeded("downloadTool")
         /\ j \in CliSucceeded("extractTar")
  /\ cliResult.kind = "thrown" => CliEffects("addPath") = {}

\* 'auto' with a rofl.yaml that has no tooling.version and no rofl.yml: the
\* latest release v0.19.0 is installed as 0.19.0 and put on the PATH
C25_Witness ==
  /\ cliCall.given /\ version = <<"auto">>
  /\ cliCall.yaml = Manifest(<<>>) /\ cliCall.yml = NoFile
  /\ tagName = <<"v", "0.19.0">>
  /\ resolvedVersion = <<"0.19.0">>
  /\ CliEffects("addPath") # {}
  /\ cliResult.kind = "returned"

\* ========================================= claims on proposeToSafe, II

\* the stage of proposeToSafe an external call belongs to: 1 decoding the
\* artifacts and building the descriptors, 2 setting up the Safe kits,
\* 3 resolving the nonce, 4 createTransaction, 5 getTransactionHash,
\* 6 signHash, 7 submission
StageOf(c) ==
  CASE c.op \in {"loadModule", "existsSync", "readFileSync", "fromCBOR"} -> 1
    [] c.op \in {"new SafeApiKit", "Safe.init"} -> 2
    [] c.op = "getNextNonce" -> 3
    [] c.op = "setTimeout" -> IF c.arg = "nonce" THEN 3 ELSE 7
    [] c.op = "createTransaction" -> 4
    [] c.op = "getTransactionHash" -> 5
    [] c.op = "signHash" -> 6
    [] OTHER -> 7

\* some call of `op` returned before the k-th call of the trace
ReturnedBefore(op, k) == \E j \in 1..(k - 1) : trace[j].op = op /\ trace[j].ok

\* C26: the external calls of one invocation are made stage by stage in the
\* order decoding, Safe kits, nonce, createTransaction, getTransactionHash,
\* signHash, submission, after the network was resolved; a stage starts
\* only after the call that ends the stage before it returned; no stage is
\* gone back to; createTransaction, getTransactionHash and signHash are
\* called at most once; a dry run makes no submission call; and
\* proposeTransaction is called only after signHash returned.
C26_StageOrder ==
  /\ trace # <<>> => ~NetworkInfoMissing(networkName)
  /\ \A k \in 1..(Len(trace) - 1) : StageOf(trace[k]) <= StageOf(trace[k + 1])
  /\ \A k \in DOMAIN trace :
       /\ StageOf(trace[k]) = 2 => Len(transactions) > 0
       /\ trace[k].op = "Safe.init" => ReturnedBefore("new SafeApiKit", k)
       /\ StageOf(trace[k]) = 3 => ReturnedBefore("Safe.init", k)
       /\ StageOf(trace[k]) = 4 => ReturnedBefore("getNextNonce", k)
       /\ StageOf(trace[k]) = 5 => ReturnedBefore("createTransaction", k)
       /\ StageOf(trace[k]) = 6 => ReturnedBefore("getTransactionHash", k)
       /\ StageOf(trace[k]) = 7 => ReturnedBefore("signHash", k) /\ ~inputs.dryRun
  /\ \A op \in {"new SafeApiKit", "Safe.init", "createTransaction", "getTransactionHash",
                 "signHash"} : Cardinality(Calls(op)) <= 1
  /\ (result.kind = "hash" /\ inputs.dryRun) => Returned("signHash")

\* a live run that had to ask for the nonce twice and ended with the hash
\* of the submitted proposal
C26_Witness ==
  /\ pc = "done"
  /\ result.kind = "hash"
  /\ ~inputs.dryRun
  /\ Cardinality(Calls("getNextNonce")) = 2
  /\ Returned("proposeTransaction")

\* the nonces that getNextNonce has answered so far
AnsweredNonces == { trace[j].n : j \in { i \in Calls("getNextNonce") : trace[i].ok } }

\* C27: createTransaction is called only after a getNextNonce call of the
\* same invocation returned, and with the nonce that call returned, which
\* is the nonce of the transaction created and of every proposal sent; as
\* long as no getNextNonce call has returned, and so when all attempts
\* failed, nothing is created, hashed, signed or proposed.
C27_NonceFromService ==
  /\ \A k \in Calls("createTransaction") :
       \E j \in 1..(k - 1) :
         trace[j].op = "getNextNonce" /\ trace[j].ok /\ trace[j].n = trace[k].n
  /\ Returned("createTransaction") => safeTransaction.nonce \in AnsweredNonces
  /\ \A k \in DOMAIN proposals : proposals[k].safeTransactionData.nonce \in AnsweredNonces
  /\ AnsweredNonces = {} =>
       /\ \A k \in DOMAIN trace : StageOf(trace[k]) <= 3
       /\ safeTransaction = NoTransaction
       /\ safeTxHash = NoHash
       /\ signature = NoSignature
       /\ proposals = <<>>
       /\ result.kind # "hash"

\* the first getNextNonce call failed, the second answered 1, and the
\* transaction was created with nonce 1
C27_Witness ==
  /\ Cardinality(Calls("getNextNonce")) = 2
  /\ AnsweredNonces = {1}
  /\ Returned("createTransaction")
  /\ safeTransaction.nonce = 1

\* what the proposals of this invocation are expected to carry: the batch of
\* this invocation's descriptors under the answered nonce, its hash, and the
\* proposer's signature of that hash
ExpectedProposal(n) ==
  LET tx == [transactions |-> MetaTransactions(transactions), nonce |-> n]
      hash == TransactionHash(tx)
      sig == Signature(inputs.safeProposerKey, hash)
  IN [ safeTransactionData |-> tx,
       safeTxHash          |-> hash,
       senderAddress       |-> sig.signer,
       senderSignature     |-> sig.data ]

\* C28: within one invocation at most one getNextNonce call returns and
\* createTransaction, getTransactionHash and signHash are each called at
\* most once; every proposeTransaction call, first attempt or retry,
\* carries the same transaction data, Safe transaction hash, nonce and
\* signature, namely those created, hashed and signed before the first
\* attempt.
C28_BuiltOnce ==
  /\ Cardinality({ i \in Calls("getNextNonce") : trace[i].ok }) <= 1
  /\ Cardinality(Calls("createTransaction")) <= 1
  /\ Cardinality(Calls("getTransactionHash")) <= 1
  /\ Cardinality(Calls("signHash")) <= 1
  /\ Len(proposals) = Cardinality(Calls("proposeTransaction"))
  /\ \A k \in DOMAIN proposals :
       /\ proposals[k] = proposals[1]
       /\ \E n \in AnsweredNonces : proposals[k] = ExpectedProposal(n)
       /\ proposals[k].safeTransactionData = safeTransaction
       /\ proposals[k].safeTxHash = safeTxHash
       /\ proposals[k].senderSignature = signature.data

\* three submission attempts, the last of which succeeded, under nonce 1
C28_Witness ==
  /\ Len(proposals) = 3
  /\ proposals[3].safeTransactionData.nonce = 1
  /\ Len(proposals[3].safeTransactionData.transactions) = 2
  /\ result.kind = "hash"

\* the proposeTransaction calls that returned
Submissions == { i \in Calls("proposeTransaction") : trace[i].ok }

\* C29: at most one proposeTransaction call returns; the one that does is
\* the last external call of the invocation, which ends with the hash of the
\* proposal; a live run that ends with a hash has exactly one such call; a
\* dry run makes no proposeTransaction call at all.
C29_SubmittedOnce ==
  /\ Cardinality(Submissions) <= 1
  /\ \A i \in Submissions :
       /\ i = Len(trace)
       /\ pc = "done"
       /\ result.kind = "hash" /\ result.hash = proposals[Len(proposals)].safeTxHash
  /\ (result.kind = "hash" /\ ~inputs.dryRun) => Cardinality(Submissions) = 1
  /\ inputs.dryRun => Calls("proposeTransaction") = {} /\ proposals = <<>>

\* a live run whose first submission attempt failed and whose second succeeded
C29_Witness ==
  /\ ~inputs.dryRun
  /\ result.kind = "hash"
  /\ Cardinality(Calls("proposeTransaction")) = 2
  /\ Cardinality(Submissions) = 1

\* C30: createTransaction is called at most once per invocation; the
\* transaction it creates holds one call per descriptor, in the descriptors'
\* order and with their target and data, each of operation type Call; and
\* that one transaction is what every proposal carries.
C30_OneBatchOfCalls ==
  /\ Cardinality(Calls("createTransaction")) <= 1
  /\ Returned("createTransaction") =>
       /\ Len(transactions) > 0
       /\ Len(safeTransaction.transactions) = Len(transactions)
       /\ \A i \in DOMAIN transactions :
            /\ safeTransaction.transactions[i].operation = "Call"
            /\ safeTransaction.transactions[i].to = transactions[i].to
            /\ safeTransaction.transactions[i].data = transactions[i].data
  /\ \A k \in DOMAIN proposals :
       /\ Len(proposals[k].safeTransactionData.transactions) = Len(transactions)
       /\ \A i \in DOMAIN transactions :
            proposals[k].safeTransactionData.transactions[i].operation = "Call"

\* the update and the deploy descriptor were put in one transaction, which
\* was proposed
C30_Witness ==
  /\ Len(transactions) = 2
  /\ Returned("createTransaction")
  /\ Len(safeTransaction.transactions) = 2
  /\ Returned("proposeTransaction")

\* ================================== claims on generateTransactions, II

\* the deploy block threw: the artifact did not decode, or declares a
\* method outside roflmarket.*
DeployBlockThrew ==
  /\ pc = "done"
  /\ result.kind = "error"
  /\ files.deployFile # ""
  /\ \/ /\ disk[files.deployFile].kind = "garbage"
        /\ result.err = DecodeError
     \/ /\ DeployDecoded
        /\ DeployDeclaresMethod
        /\ ~InRoflmarketFamily(disk[files.deployFile].method)
        /\ result.err.message[1] = "Unsupported deploy CBOR method: "

\* C31: an update artifact that was found and decoded and carries a call is
\* wrapped by rofl.callUpdate() with its own body and is the first
\* descriptor of the batch, whatever method it declares and when it
\* declares none, unless the deploy block then throws; an unsupported-method
\* error is raised only for the deploy artifact's method.
C31_UpdateAlwaysRoflUpdate ==
  /\ UpdateAccepted =>
       \/ DeployBlockThrew
       \/ /\ Len(transactions) >= 1
          /\ transactions[1].to = SubcallAddress
          /\ transactions[1].data = <<"rofl.Update", disk[files.updateFile].body>>
  /\ (result.kind = "error" /\ result.err.message # <<>>
        /\ result.err.message[1] = "Unsupported deploy CBOR method: ") =>
       /\ DeployDecoded
       /\ DeployDeclaresMethod
       /\ LET m == disk[files.deployFile].method
          IN SubSeq(result.err.message, 2, 1 + Len(m)) = m

\* an update artifact declaring roflmarket.InstanceExecuteCmds and another
\* declaring no method at all are both reachable; here the former, proposed
\* as a rofl.Update call
C31_Witness ==
  /\ UpdateAccepted
  /\ disk[files.updateFile].hasMethod
  /\ disk[files.updateFile].method = <<"roflmarket", ".", "InstanceExecuteCmds">>
  /\ transactions # <<>>
  /\ transactions[1].data[1] = "rofl.Update"
  /\ Returned("createTransaction")

\* generateTransactions has looked for the configured file `path` and the
\* file does not exist
LookedForMissing(path) ==
  /\ path # ""
  /\ disk[path].kind = "absent"
  /\ \E i \in DOMAIN trace : trace[i].op = "existsSync" /\ trace[i].arg = path

\* the calls made on the file `path`
FileCalls(path) ==
  { i \in DOMAIN trace :
      trace[i].op \in {"existsSync", "readFileSync", "fromCBOR"} /\ trace[i].arg = path }

\* C32: a configured artifact path whose file does not exist is only asked
\* for with existsSync, is neither read nor decoded, and raises no error: the
\* other block still runs; with the update file missing and the deploy
\* artifact accepted the batch is the deploy descriptor alone, and with the
\* deploy file missing and the update artifact accepted it is the update
\* descriptor alone.
C32_MissingFileIsAbsent ==
  /\ \A path \in {files.updateFile, files.deployFile} :
       LookedForMissing(path) =>
         /\ \A i \in FileCalls(path) : trace[i] = Call("existsSync", path, TRUE, 0)
         /\ Cardinality(FileCalls(path)) = 1
  /\ (LookedForMissing(files.updateFile) /\ files.deployFile # "") =>
       FileCalls(files.deployFile) # {}
  /\ (LookedForMissing(files.updateFile) /\ DeployDecoded /\ DeployDeclaresMethod
        /\ InRoflmarketFamily(disk[files.deployFile].method)) =>
       /\ Len(transactions) = 1
       /\ transactions[1].data =
            <<"roflmarket.InstanceExecuteCmds", disk[files.deployFile].body>>
       /\ result.kind = "error" => result.err \in ServiceErrors \cup {SyntaxError}
                                     \/ result.err.message[1] = "Failed to get nonce after "
  /\ (LookedForMissing(files.deployFile) /\ UpdateAccepted) =>
       /\ Len(transactions) = 1
       /\ transactions[1].data = <<"rofl.Update", disk[files.updateFile].body>>
       /\ result.kind = "error" => result.err \in ServiceErrors \cup {SyntaxError}
                                     \/ result.err.message[1] = "Failed to get nonce after "

\* update.cbor is configured and missing, deploy.cbor is accepted, and the
\* one-descriptor batch was proposed
C32_Witness ==
  /\ LookedForMissing(files.updateFile)
  /\ DeployDecoded
  /\ Len(transactions) = 1
  /\ transactions[1].data[1] = "roflmarket.InstanceExecuteCmds"
  /\ Returned("proposeTransaction")

\* ========================================= claims on proposeToSafe, III

\* the calls made once, outside the two loops
OneShotCalls == {"Safe.init", "createTransaction", "getTransactionHash", "signHash"}

\* the k-th call is the one that ended an attempt of a retry loop in failure
FailedAttempt(k) ==
  /\ trace[k].op \in {"getNextNonce", "getAddress", "proposeTransaction"}
  /\ ~trace[k].ok

\* the loop a retried call belongs to, as setTimeout entries name it
LoopOf(c) == IF c.op = "getNextNonce" THEN "nonce" ELSE "propose"

\* C33: the calls of the Safe flow are made one after the other, and the
\* two retry loops go attempt, wait, attempt: a failed getNextNonce or
\* submission attempt (getAddress, then proposeTransaction) is followed by
\* nothing but a positive wait of its own loop and then the next attempt of
\* that loop; a wait only ever follows such a failure; a call that returned
\* is never repeated; Safe.init, createTransaction, getTransactionHash and
\* signHash are called at most once, and when one of them fails it is the
\* last call and its error ends the invocation unwrapped.
C33_SequentialRetries ==
  /\ \A k \in 1..(Len(trace) - 1) :
       /\ FailedAttempt(k) =>
            /\ trace[k + 1].op = "setTimeout"
            /\ trace[k + 1].arg = LoopOf(trace[k])
            /\ trace[k + 1].n > 0
       /\ trace[k + 1].op = "setTimeout" => FailedAttempt(k)
       /\ trace[k].op = "setTimeout" =>
            trace[k + 1].op = (IF trace[k].arg = "nonce" THEN "getNextNonce" ELSE "getAddress")
       /\ (trace[k].op = "getNextNonce" /\ trace[k].ok) => trace[k + 1].op = "createTransaction"
       /\ (trace[k].op = "getAddress" /\ trace[k].ok) => trace[k + 1].op = "proposeTransaction"
       /\ ~(trace[k].op = "proposeTransaction" /\ trace[k].ok)
  /\ (trace # <<>> /\ trace[Len(trace)].op = "setTimeout") => pc \in {"nonce", "propose"}
  /\ \A op \in OneShotCalls : Cardinality(Calls(op)) <= 1
  /\ \A k \in DOMAIN trace :
       (trace[k].op \in OneShotCalls /\ ~trace[k].ok) =>
         /\ k = Len(trace)
         /\ pc = "done"
         /\ result.kind = "error"
         /\ result.err \in ServiceErrors

\* one failed and one answered getNextNonce, then two failed submission
\* attempts and a third that succeeded
C33_Witness ==
  /\ Cardinality(Calls("getNextNonce")) = 2
  /\ Cardinality(Calls("getAddress")) = 3
  /\ Cardinality(Calls("setTimeout")) = 3
  /\ Returned("proposeTransaction")

\* C34: once proposeToSafe is entered it ends, with the hash or with an
\* error, provided every awaited call settles; on the way getNextNonce and
\* proposeTransaction are called at most 3 times each, and the proposal loop
\* is never left through its condition (retryCount <= maxRetries holds
\* whenever the loop is about to test it), so the throw after the loop is
\* never reached.
C34_Terminates ==
  /\ [](/\ Cardinality(Calls("getNextNonce")) <= 3
        /\ Cardinality(Calls("proposeTransaction")) <= 3
        /\ pc = "propose" => retryCount <= maxRetries
        /\ pc = "nonce" => attempt <= nonceMaxRetries)
  /\ (pc = "proposeToSafe") ~> (pc = "done" /\ result.kind \in {"hash", "error"})

\* the longest run: three nonce attempts, then three failed submissions
C34_Witness ==
  /\ pc = "done"
  /\ Cardinality(Calls("getNextNonce")) = 3
  /\ Cardinality(Calls("proposeTransaction")) = 3
  /\ result.kind = "error"

\* ================================================== claims on run(), II

\* installOasisCLI was called, a subprocess was started or runSafeProposal
\* was entered
IsExternal(e) == e.op \in {"installOasisCLI", "exec", "runSafeProposal"}
\* the positions of the log that hold such steps
ExternalSteps == { k \in DOMAIN log : IsExternal(log[k]) }

\* C35: when safe_address is non-empty and safe_proposer_key is empty,
\* run() fails during input validation: the CLI is not installed and no
\* oasis build, update or deploy subprocess and no SDK npm install is
\* executed.
C35_ProposerKeyValidatedFirst ==
  actionInputs.safeAddress # "" /\ actionInputs.safeProposerKey = "" =>
    /\ \A k \in DOMAIN log : log[k].op \notin {"installOasisCLI", "exec"}
    /\ stage = "done" => outcome = "failed"

\* the external steps of the run, in the order the log has them
ExternalLog == SelectSeq(log, IsExternal)

\* the place of an external step in the order of run(); 0 for the commands
\* of the update check
StepRank(e) ==
  IF e.op = "installOasisCLI" THEN 1
  ELSE IF e.op = "runSafeProposal" THEN 10
  ELSE IF IsExec(e, "sudo", <<"apt-get">>) THEN 2
  ELSE IF IsExec(e, "oasis", <<"network", "set-default">>) THEN 3
  ELSE IF IsExec(e, "oasis", <<"wallet", "import">>) THEN 4
  ELSE IF IsExec(e, "oasis", <<"wallet", "set-default">>) THEN 5
  ELSE IF IsRoflBuild(e) THEN 6
  ELSE IF IsRoflUpdate(e) THEN 7
  ELSE IF IsRoflDeploy(e) THEN 8
  ELSE IF IsNpmInstall(e) THEN 9
  ELSE 0

\* the step of this rank is one the inputs and the platform ask for
StepEnabled(r) ==
  CASE r = 2 -> platform = "linux" /\ ~actionInputs.skipBuild /\ ~actionInputs.onlyValidate
    [] r \in {4, 5} -> actionInputs.walletImport
    [] r = 6 -> ~actionInputs.skipBuild
    [] r = 7 -> ~actionInputs.skipUpdate /\ ~actionInputs.onlyValidate
    [] r = 8 -> ~actionInputs.skipDeploy /\ ~actionInputs.onlyValidate
    [] r \in {9, 10} -> actionInputs.safeAddress # ""
    [] OTHER -> TRUE

\* C36: in a run without check_updates the external steps are logged in the
\* order CLI install, apt-get, network set-default, wallet import, wallet
\* set-default, rofl build, rofl update, rofl deploy, npm install, Safe
\* proposal; a step starts only after the step before it returned (the
\* apt-get commands may fail) and after every earlier enabled step, and
\* the working directory is changed at most once, before all of them.
C36_FixedStepOrder ==
  ~actionInputs.checkUpdates =>
    LET x == ExternalLog
        changes == { k \in DOMAIN log : log[k].op = "chdir" }
    IN /\ \A k \in DOMAIN x : StepRank(x[k]) > 0
       /\ \A k \in 1..(Len(x) - 1) :
            /\ \/ StepRank(x[k]) < StepRank(x[k + 1])
               \/ /\ IsExec(x[k], "sudo", <<"apt-get", "update">>)
                  /\ IsExec(x[k + 1], "sudo", <<"apt-get", "install">>)
            /\ x[k].res # "throws" \/ StepRank(x[k]) = 2
       /\ \A k \in DOMAIN x :
            \A r \in 1..(StepRank(x[k]) - 1) :
              StepEnabled(r) => \E j \in 1..(k - 1) : StepRank(x[j]) = r
       /\ Cardinality(changes) <= 1
       /\ \A k \in changes : \A j \in ExternalSteps : k < j

\* a completed run that changed the working directory and took every step
C36_Witness ==
  /\ stage = "done"
  /\ outcome = "completed"
  /\ ~actionInputs.checkUpdates
  /\ \E k \in DOMAIN log : log[k].op = "chdir"
  /\ Len(ExternalLog) = 11
  /\ \A r \in 1..10 : \E k \in DOMAIN ExternalLog : StepRank(ExternalLog[k]) = r

\* C37: in Safe mode, when both 'oasis rofl update' and 'oasis rofl deploy'
\* were executed, the update file and the deploy file handed to
\* runSafeProposal are different paths.
C37_DistinctArtifacts ==
  \A k \in SafeProposalCalls :
    Executed("oasis", <<"rofl", "update">>) /\ Executed("oasis", <<"rofl", "deploy">>) =>
      log[k].args[2] # log[k].args[3]

\* a command of the update check that changes the branch, the remote or
\* the pull requests
IsMutating(e) ==
  \/ IsExec(e, "git", <<"checkout">>)
  \/ IsExec(e, "git", <<"add">>)
  \/ IsExec(e, "git", <<"commit">>)
  \/ IsExec(e, "git", <<"push">>)
  \/ IsExec(e, "gh", <<"pr", "create">>)

\* C38: git checkout, add, commit, push and 'gh pr create' are executed
\* only in check_updates mode with create_update_pr true, after git diff
\* exited non-zero and 'gh pr list' printed no URL; when it printed one,
\* update_pr_url is set to it and none of those commands is executed; git
\* push carries '--force' iff 'git ls-remote' showed the branch.
C38_PullRequestGuards ==
  /\ \A k \in DOMAIN log :
       IsMutating(log[k]) =>
         /\ actionInputs.checkUpdates
         /\ actionInputs.createUpdatePr
         /\ DiffExited("1")
         /\ \E j \in 1..(k - 1) : IsExec(log[j], "gh", <<"pr", "list">>)
         /\ existingPrUrl = ""
  /\ existingPrUrl # "" =>
       /\ OutputIs("update_pr_url", existingPrUrl)
       /\ \A k \in DOMAIN log : ~IsMutating(log[k])
  /\ \A k \in DOMAIN log :
       IsExec(log[k], "git", <<"push">>) =>
         (InList("--force", log[k].args) <=> remoteBranchExists)

\* the branch was on the remote: the push was forced and the pull request
\* created
C38_Witness ==
  /\ stage = "done"
  /\ outcome = "returned"
  /\ remoteBranchExists
  /\ \E k \in DOMAIN log :
       /\ IsExec(log[k], "git", <<"push">>)
       /\ InList("--force", log[k].args)
  /\ Executed("gh", <<"pr", "create">>)
  /\ OutputIs("update_pr_url", PrUrl)

\* ------------------------------------------------ the debug log of run()

\* the positions of the log that hold the core.debug line beginning `head`
DebugLines(head) == { k \in DOMAIN log : log[k].op = "debug" /\ log[k].args[1] = head }

\* the 'Collected inputs' line shows '***' for both secrets, and right
\* after it was written it is the inputs with the two values replaced
CollectedLineRedacted ==
  \A k \in DebugLines("Collected inputs: ") :
    /\ log[k].args[2].safeProposerKey = "***"
    /\ log[k].args[2].walletSecret = "***"
    /\ stage = "safeMode" =>
         log[k].args[2] = [actionInputs EXCEPT !.safeProposerKey = "***", !.walletSecret = "***"]

\* the 'Built walletImportArgs' line is the argument list of the inputs
\* whose wallet_secret is `shown`
BuiltLineShows(shown) ==
  \A k \in DebugLines("Built walletImportArgs: ") :
    log[k].args = <<"Built walletImportArgs: ">>
                    \o WalletImportArgs([actionInputs EXCEPT !.walletSecret = shown])

\* C39 as stated: both debug lines are the same in all runs that differ only
\* in wallet_secret and safe_proposer_key, that is, they are what the other
\* inputs alone determine, with '***' for each secret.
C39_DebugLogIndependentOfSecrets ==
  /\ CollectedLineRedacted
  /\ BuiltLineShows("***")

\* C39: the 'Collected inputs' line is determined by the inputs other than
\* wallet_secret and safe_proposer_key and shows '***' for both; the 'Built
\* walletImportArgs' line is determined by the other inputs and by whether
\* wallet_secret is empty: it shows '--secret ***' for a non-empty secret
\* and no '--secret' at all for an empty one.
C39_DebugLogRedacted ==
  /\ CollectedLineRedacted
  /\ BuiltLineShows(IF actionInputs.walletSecret = "" THEN "" ELSE "***")

\* both secrets were given and both lines were written
C39_Witness ==
  /\ actionInputs.walletSecret = "secret"
  /\ actionInputs.safeProposerKey = "0xkey"
  /\ DebugLines("Collected inputs: ") # {}
  /\ \E k \in DebugLines("Built walletImportArgs: ") : Carries(log[k].args, "--secret", "***")

\* the run was rejected by the Safe-mode validation of run()
RejectedBySafeMode ==
  \/ Logged("setFailed", ErrorMessage(UpdateOutputFileRequired))
  \/ Logged("setFailed", ErrorMessage(DeployOutputFileRequired))

\* C40: a run that the Safe-mode validation of run() rejected (missing
\* update or deploy output file) has failed without calling installOasisCLI,
\* executing a subprocess or entering runSafeProposal.
C40_SafeModeRejectsFirst ==
  RejectedBySafeMode =>
    /\ stage = "done"
    /\ outcome = "failed"
    /\ ExternalSteps = {}

\* the update file was given and the deploy file was not, in a run that
\* asks for the build and both steps
C40_Witness ==
  /\ Logged("setFailed", ErrorMessage(DeployOutputFileRequired))
  /\ actionInputs.safeAddress # ""
  /\ actionInputs.updateOutputFile # ""
  /\ ~actionInputs.skipBuild /\ ~actionInputs.skipUpdate /\ ~actionInputs.skipDeploy
  /\ stage = "done"

====
